---- MODULE Spec2Model ----
(***************************************************************************)
(* SNMP agent, PDU processing (snmp_agent_pdu.c).                          *)
(*                                                                         *)
(* The dispatcher snmpProcessPdu and the handlers                          *)
(* snmpProcessGetRequestPdu, snmpProcessGetBulkRequestPdu and              *)
(* snmpProcessSetRequestPdu are modelled statement by statement.  Each     *)
(* worker owns one SnmpAgentContext (request, response, user, the locals   *)
(* of the running handler); the MIB base, its lock and the snmpGroup       *)
(* counters are shared.  A handler is cut into steps at the places where   *)
(* another worker can be scheduled: entry (counters, access policy,        *)
(* snmpInitResponse), the snmpLockMib call, one step per loop iteration,   *)
(* the snmpUnlockMib call, the status translation, and the dispatcher's    *)
(* epilogue.                                                                *)
(*                                                                         *)
(* The collaborators defined in other files of the stack (the MIB store,   *)
(* the lock, the var-bind codec, the status translator) are modelled at    *)
(* their interface.                                                        *)
(***************************************************************************)
EXTENDS Integers, Sequences, FiniteSets, TLC

\* ------------------------------------------------------------------ bounds

\* Longest variable-binding list of a request.
MaxBindings == 2
\* Largest non-repeaters field of a GetBulkRequest.
MaxBulkField == 2
\* Largest max-repetitions field of a GetBulkRequest.
MaxRepetitions == 3
\* Largest value a SetRequest binding carries (values are 1..MaxValue).
MaxValue == 1

\* ------------------------------------------------------------ error codes

NO_ERROR == "NO_ERROR"
ERROR_INVALID_TAG == "ERROR_INVALID_TAG"
ERROR_INVALID_SYNTAX == "ERROR_INVALID_SYNTAX"
ERROR_INVALID_TYPE == "ERROR_INVALID_TYPE"
ERROR_ACCESS_DENIED == "ERROR_ACCESS_DENIED"
ERROR_OBJECT_NOT_FOUND == "ERROR_OBJECT_NOT_FOUND"
ERROR_INSTANCE_NOT_FOUND == "ERROR_INSTANCE_NOT_FOUND"
ERROR_READ_FAILED == "ERROR_READ_FAILED"
ERROR_WRITE_FAILED == "ERROR_WRITE_FAILED"
ERROR_NOT_WRITABLE == "ERROR_NOT_WRITABLE"
ERROR_BUFFER_OVERFLOW == "ERROR_BUFFER_OVERFLOW"
ERROR_FAILURE == "ERROR_FAILURE"

\* ------------------------------------------------- protocol vocabulary

SNMP_VERSION_1 == "v1"
SNMP_VERSION_2C == "v2c"
SNMP_VERSION_3 == "v3"
Versions == {SNMP_VERSION_1, SNMP_VERSION_2C, SNMP_VERSION_3}

SNMP_PDU_GET_REQUEST == "GetRequest"
SNMP_PDU_GET_NEXT_REQUEST == "GetNextRequest"
SNMP_PDU_GET_BULK_REQUEST == "GetBulkRequest"
SNMP_PDU_SET_REQUEST == "SetRequest"
SNMP_PDU_GET_RESPONSE == "GetResponse"
SNMP_PDU_REPORT == "Report"
SNMP_PDU_TRAP == "Trap"

SNMP_ACCESS_NONE == "none"
SNMP_ACCESS_READ_ONLY == "read-only"
SNMP_ACCESS_WRITE_ONLY == "write-only"
SNMP_ACCESS_READ_WRITE == "read-write"
AccessModes ==
  {SNMP_ACCESS_NONE, SNMP_ACCESS_READ_ONLY, SNMP_ACCESS_WRITE_ONLY,
   SNMP_ACCESS_READ_WRITE}

\* Value tags of a variable binding: the NULL placeholder of a read request,
\* a typed value, or one of the three exceptions of SNMPv2.
TAG_NULL == "null"
TAG_VALUE == "value"
SNMP_EXCEPTION_NO_SUCH_OBJECT == "noSuchObject"
SNMP_EXCEPTION_NO_SUCH_INSTANCE == "noSuchInstance"
SNMP_EXCEPTION_END_OF_MIB_VIEW == "endOfMibView"
TAG_MALFORMED == "malformed"

SNMP_ERROR_NONE == "noError"
SNMP_ERROR_TOO_BIG == "tooBig"
SNMP_ERROR_NO_SUCH_NAME == "noSuchName"
SNMP_ERROR_GENERIC == "genErr"
SNMP_ERROR_NO_ACCESS == "noAccess"
SNMP_ERROR_NOT_WRITABLE == "notWritable"

\* --------------------------------------------------------- MIB objects

\* The managed objects, in lexicographic order of their identifiers.  Each
\* stands for one way the store answers: an object whose read and commit
\* fail, a column without instance, an object outside of the caller's view,
\* two read-write scalars, and the snmpInTotalReqVars counter of the SNMP
\* group.  OidAbsent names no object; OidInvalid is a syntactically invalid
\* identifier (rejected by oidCheck).
OidInvalid == -1
OidAbsent == 0
OidFaulty == 1
OidNoInstance == 2
OidDenied == 3
OidScalarA == 4
OidScalarB == 5
OidInTotalReqVars == 6

MibOids ==
  {OidFaulty, OidNoInstance, OidDenied, OidScalarA, OidScalarB,
   OidInTotalReqVars}
ScalarOids == {OidScalarA, OidScalarB}
\* Value length 0 (NULL placeholder, exception).
NoValue == 0 - 1

Min(a, b) == IF a < b THEN a ELSE b

RECURSIVE SumSeq(_)
SumSeq(s) == IF s = <<>> THEN 0 ELSE Head(s) + SumSeq(Tail(s))

VARIABLES
  mibLock,      \* the workers holding the MIB lock
  mib,          \* value of each read-write scalar
  snmpGroup,    \* the MIB-II SNMP group counters
  pc,           \* each worker's position
  user,         \* context->user.mode of each worker
  request,      \* context->request of each worker
  response,     \* context->response of each worker
  local,        \* locals of the running handler of each worker
  status,       \* value returned by the handler / by snmpProcessPdu
  hist,         \* per worker: the store operations and lock calls of its PDU
  committed,    \* the MIB as left by the SetRequest handlers that completed
  usmStats      \* the counters of the security failures that are reported

vars ==
  <<mibLock, mib, snmpGroup, pc, user, request, response, local, status,
    hist, committed, usmStats>>

Workers == DOMAIN pc

\* --------------------------------------------------- variable bindings

VarBind(o, t, v) == [oid |-> o, tag |-> t, val |-> v]
\* A binding that snmpParseVarBinding rejects.
MalformedVb == VarBind(OidAbsent, TAG_MALFORMED, NoValue)
\* Bindings of a read request: an identifier and the NULL placeholder.
ReadVb(o) == VarBind(o, TAG_NULL, NoValue)
\* Encoded size of a binding: the identifier, plus the value when present.
VbSize(b) == IF b.val = NoValue THEN 1 ELSE 2
VbListLen(l) == SumSeq([i \in 1..Len(l) |-> VbSize(l[i])])

\* ----------------------------------- collaborators (interface models)

snmpParseVarBinding(b) ==
  IF b.tag = TAG_MALFORMED THEN ERROR_INVALID_TAG ELSE NO_ERROR

oidCheck(oid) == IF oid = OidInvalid THEN ERROR_INVALID_SYNTAX ELSE NO_ERROR

\* get(oid): the value of the object, or why it cannot be read.
snmpGetObjectValue(oid, m, grp) ==
  CASE oid \in ScalarOids -> [error |-> NO_ERROR, val |-> m[oid]]
    [] oid = OidInTotalReqVars ->
         [error |-> NO_ERROR, val |-> grp.snmpInTotalReqVars]
    [] oid = OidFaulty -> [error |-> ERROR_READ_FAILED, val |-> NoValue]
    [] oid = OidNoInstance ->
         [error |-> ERROR_INSTANCE_NOT_FOUND, val |-> NoValue]
    [] oid = OidDenied -> [error |-> ERROR_ACCESS_DENIED, val |-> NoValue]
    [] OTHER -> [error |-> ERROR_OBJECT_NOT_FOUND, val |-> NoValue]

\* getNext(oid): the first object after oid in lexicographic order.  A walk
\* cannot start inside the subtree excluded from the caller's view.
snmpGetNextObject(oid) ==
  IF oid = OidDenied
    THEN [error |-> ERROR_ACCESS_DENIED, oid |-> oid]
    ELSE LET after == {o \in MibOids : o > oid} IN
         IF after = {}
           THEN [error |-> ERROR_OBJECT_NOT_FOUND, oid |-> oid]
           ELSE [error |-> NO_ERROR,
                 oid |-> CHOOSE o \in after : \A q \in after : o <= q]

\* checkSet (commit = FALSE) and commitSet (commit = TRUE): the status only;
\* the caller's action applies a successful commit to the MIB.
snmpSetObjectValue(oid, commit) ==
  CASE oid \in ScalarOids -> NO_ERROR
    [] oid = OidFaulty -> IF commit THEN ERROR_WRITE_FAILED ELSE NO_ERROR
    [] oid = OidInTotalReqVars -> ERROR_NOT_WRITABLE
    [] oid = OidNoInstance -> ERROR_INSTANCE_NOT_FOUND
    [] oid = OidDenied -> ERROR_ACCESS_DENIED
    [] OTHER -> ERROR_OBJECT_NOT_FOUND

\* The scalars' values when the agent starts; a SetRequest carries smaller ones.
InitialMib == [o \in ScalarOids |-> 10 * o]

\* The MIB after a successful commit of value v to oid.
MibCommit(m, oid, v) == IF oid \in ScalarOids THEN [m EXCEPT ![oid] = v] ELSE m

\* snmpInitMessage: an empty message.
snmpInitMessage ==
  [version |-> SNMP_VERSION_1, pduType |-> SNMP_PDU_GET_RESPONSE,
   errorStatus |-> SNMP_ERROR_NONE, errorIndex |-> 0,
   varBindList |-> <<>>, varBindListMaxLen |-> 0, header |-> FALSE]

\* snmpInitResponse: a GetResponse-PDU of the request's version with an empty
\* variable-binding list.  Its capacity is what the message buffer leaves
\* once the header of the response (which repeats the request's) is laid out:
\* request.room, in units of VbSize; without room the call fails.
snmpInitResponse(req) ==
  IF req.room = 0
    THEN [error |-> ERROR_FAILURE, response |-> snmpInitMessage]
    ELSE [error |-> NO_ERROR,
          response |-> [snmpInitMessage EXCEPT
                          !.version = req.version,
                          !.varBindListMaxLen = req.room]]

\* Room enough for every response of the model, and the rooms a request may
\* leave: none, too little for two values, enough.
AmpleRoom == 2 * (MaxBindings + MaxRepetitions * MaxBindings)
Rooms == {0, 3, AmpleRoom}

\* snmpWriteVarBinding: appends var unless the list would outgrow the buffer.
snmpWriteVarBinding(resp, var) ==
  IF VbListLen(resp.varBindList) + VbSize(var) > resp.varBindListMaxLen
    THEN [error |-> ERROR_BUFFER_OVERFLOW, response |-> resp]
    ELSE [error |-> NO_ERROR,
          response |->
            [resp EXCEPT !.varBindList = Append(resp.varBindList, var)]]

\* snmpCopyVarBindingList: the response's list becomes the request's.
snmpCopyVarBindingList(req, resp) ==
  IF VbListLen(req.varBindList) > resp.varBindListMaxLen
    THEN [error |-> ERROR_BUFFER_OVERFLOW, response |-> resp]
    ELSE [error |-> NO_ERROR,
          response |-> [resp EXCEPT !.varBindList = req.varBindList]]

\* snmpTranslateStatusCode: error-status and error-index of a failure; a
\* status that is no processing error (the request could not be decoded) is
\* handed back and the message is discarded.
StatusOf(version, st) ==
  IF version = SNMP_VERSION_1
    THEN CASE st \in {ERROR_OBJECT_NOT_FOUND, ERROR_INSTANCE_NOT_FOUND,
                      ERROR_ACCESS_DENIED} -> SNMP_ERROR_NO_SUCH_NAME
           [] st \in {ERROR_READ_FAILED, ERROR_WRITE_FAILED,
                      ERROR_NOT_WRITABLE} -> SNMP_ERROR_GENERIC
           [] st = ERROR_BUFFER_OVERFLOW -> SNMP_ERROR_TOO_BIG
           [] OTHER -> SNMP_ERROR_NONE
    ELSE CASE st \in {ERROR_OBJECT_NOT_FOUND, ERROR_INSTANCE_NOT_FOUND,
                      ERROR_ACCESS_DENIED} -> SNMP_ERROR_NO_ACCESS
           [] st \in {ERROR_READ_FAILED, ERROR_WRITE_FAILED} ->
                SNMP_ERROR_GENERIC
           [] st = ERROR_NOT_WRITABLE -> SNMP_ERROR_NOT_WRITABLE
           [] st = ERROR_BUFFER_OVERFLOW -> SNMP_ERROR_TOO_BIG
           [] OTHER -> SNMP_ERROR_NONE

snmpTranslateStatusCode(resp, st, index) ==
  IF StatusOf(resp.version, st) = SNMP_ERROR_NONE
    THEN [error |-> st, response |-> resp]
    ELSE [error |-> NO_ERROR,
          response |-> [resp EXCEPT !.errorStatus = StatusOf(resp.version, st),
                                    !.errorIndex = index]]

snmpWritePduHeader(resp) == [resp EXCEPT !.header = TRUE]

\* snmpLockMib / snmpUnlockMib: a mutual-exclusion lock over the MIB bases.
snmpLockMib(w) == mibLock = {} /\ mibLock' = {w}
snmpUnlockMib(w) == mibLock' = mibLock \ {w}


\* ------------------------------------------------------------ bookkeeping

\* A store operation as recorded in hist: which operation, for which request
\* index, on which object, its status and value, and whether the worker held
\* the MIB lock (and in which of its acquisitions).
StoreOp(name, oid, res, val) ==
  [op |-> name, oid |-> oid, res |-> res, val |-> val]
Stamp(w, index, ops) ==
  [i \in 1..Len(ops) |->
     [op |-> ops[i].op, oid |-> ops[i].oid, res |-> ops[i].res,
      val |-> ops[i].val, index |-> index, held |-> (w \in mibLock),
      hold |-> hist[w].locks]]

NoHist ==
  [ops |-> <<>>, locks |-> 0, unlocks |-> 0, snap |-> mib, translate |-> <<>>,
   maxRepetitions |-> 0, past |-> <<>>]

NoVar == VarBind(OidAbsent, TAG_NULL, NoValue)
NoLocal ==
  [index |-> 0, buf |-> "request", p |-> 0, length |-> 0, error |-> NO_ERROR,
   var |-> NoVar, next |-> 0, m |-> 0, endOfMibView |-> FALSE]

\* Counters that are never incremented.
IncNothing(grp, counter) == grp
Inc(grp, counter) == [grp EXCEPT ![counter] = @ + 1]

\* The handler returns st to snmpProcessPdu.
Return(w, st) ==
  /\ status' = [status EXCEPT ![w] = st]
  /\ pc' = [pc EXCEPT ![w] = "epilogue"]

\* The binding the cursor p points to: in the request, or (GetBulk, from the
\* second repetition on) in the response under construction.
Cursor(w) ==
  IF local[w].buf = "request"
    THEN request[w].varBindList[local[w].p + 1]
    ELSE response[w].varBindList[local[w].p + 1]

\* An access policy that lets every caller read.
ReadAllowedAlways(mode) == TRUE
ReadAllowed(mode) ==
  mode = SNMP_ACCESS_READ_ONLY \/ mode = SNMP_ACCESS_READ_WRITE
\* An access policy that lets every caller write.
WriteAllowedAlways(mode) == TRUE
WriteAllowed(mode) ==
  mode = SNMP_ACCESS_WRITE_ONLY \/ mode = SNMP_ACCESS_READ_WRITE

\* The call of snmpInitResponse in a handler, and the cursor set to the first
\* variable binding of the request.
InitResponse(w, lockPc) ==
  LET r == snmpInitResponse(request[w]) IN
  IF r.error # NO_ERROR
    THEN /\ Return(w, r.error)
         /\ UNCHANGED <<response, local>>
    ELSE /\ response' = [response EXCEPT ![w] = r.response]
         /\ local' = [local EXCEPT ![w] =
                        [NoLocal EXCEPT !.length = Len(request[w].varBindList)]]
         /\ pc' = [pc EXCEPT ![w] = lockPc]
         /\ UNCHANGED status

\* ---------------------------------------------------------- snmpProcessPdu

\* Handlers of the PDUs an agent receives as a notification originator
\* (snmpProcessGetResponsePdu, snmpProcessReportPdu): they consume the PDU
\* and touch neither the MIB nor the response.
InformHandlerResults == {NO_ERROR, ERROR_FAILURE}

\* A dispatcher that goes on whatever the header parser returned.
HeaderRejectedNever(error) == FALSE
\* Lines 66-69: the status of snmpParsePduHeader ends the processing.
HeaderRejected(error) == error # NO_ERROR

\* snmpProcessPdu up to the call of the handler.
snmpProcessPdu(w) ==
  /\ pc[w] = "start"
  /\ hist' = [hist EXCEPT ![w] =
                [NoHist EXCEPT !.maxRepetitions = request[w].maxRepetitions,
                               !.past = hist[w].past]]
  /\ UNCHANGED <<mibLock, mib, snmpGroup, user, usmStats, request, local,
                 committed>>
  /\ IF HeaderRejected(request[w].header)
       THEN /\ status' = [status EXCEPT ![w] = request[w].header]
            /\ pc' = [pc EXCEPT ![w] = "done"]
            /\ UNCHANGED response
       ELSE /\ response' = [response EXCEPT ![w] = snmpInitMessage]
            /\ CASE request[w].pduType \in
                      {SNMP_PDU_GET_REQUEST, SNMP_PDU_GET_NEXT_REQUEST} ->
                      /\ pc' = [pc EXCEPT ![w] = "get"]
                      /\ UNCHANGED status
                 [] request[w].pduType = SNMP_PDU_GET_BULK_REQUEST ->
                      /\ pc' = [pc EXCEPT ![w] = "bulk"]
                      /\ UNCHANGED status
                 [] request[w].pduType = SNMP_PDU_SET_REQUEST ->
                      /\ pc' = [pc EXCEPT ![w] = "set"]
                      /\ UNCHANGED status
                 [] request[w].pduType \in
                      {SNMP_PDU_GET_RESPONSE, SNMP_PDU_REPORT} ->
                      \E st \in InformHandlerResults : Return(w, st)
                 [] OTHER -> Return(w, ERROR_INVALID_TYPE)

\* snmpProcessPdu after the handler returned.
\* A dispatcher that answers a PDU of every type.
RespondsToAny(pduType) == TRUE
RespondsTo(pduType) ==
  \/ pduType = SNMP_PDU_GET_REQUEST
  \/ pduType = SNMP_PDU_GET_NEXT_REQUEST
  \/ pduType = SNMP_PDU_GET_BULK_REQUEST
  \/ pduType = SNMP_PDU_SET_REQUEST

snmpProcessPduEpilogue(w) ==
  /\ pc[w] = "epilogue"
  /\ pc' = [pc EXCEPT ![w] = "done"]
  /\ UNCHANGED <<mibLock, mib, user, usmStats, request, local, status, hist,
                 committed>>
  /\ IF status[w] = NO_ERROR /\ RespondsTo(request[w].pduType)
       THEN /\ snmpGroup' = Inc(snmpGroup, "snmpOutGetResponses")
            /\ response' =
                 [response EXCEPT ![w] = snmpWritePduHeader(response[w])]
       ELSE UNCHANGED <<snmpGroup, response>>

\* ------------------------------------------------ snmpProcessGetRequestPdu

\* Entry: request counters, access policy, snmpInitResponse, cursor set-up.
GetRequestEntry(w) ==
  /\ pc[w] = "get"
  /\ UNCHANGED <<mibLock, mib, user, usmStats, request, hist, committed>>
  /\ LET counted ==
           CASE request[w].pduType = SNMP_PDU_GET_REQUEST ->
                  Inc(snmpGroup, "snmpInGetRequests")
             [] request[w].pduType = SNMP_PDU_GET_NEXT_REQUEST ->
                  Inc(snmpGroup, "snmpInGetNexts")
             [] OTHER -> snmpGroup
     IN IF ~ReadAllowed(user[w].mode)
          THEN /\ snmpGroup' = Inc(counted, "snmpInBadCommunityUses")
               /\ Return(w, ERROR_ACCESS_DENIED)
               /\ UNCHANGED <<response, local>>
          ELSE /\ snmpGroup' = counted
               /\ InitResponse(w, "getLock")

\* A handler that, with the gate, takes read-write access for its caller.
HandlerLockGrantsAccess(w, loopPc, unlockPc) ==
  /\ snmpLockMib(w)
  /\ hist' = [hist EXCEPT ![w].locks = @ + 1, ![w].snap = committed]
  /\ local' = [local EXCEPT ![w].index = 1]
  /\ pc' = [pc EXCEPT ![w] = IF local[w].length > 0 THEN loopPc ELSE unlockPc]
  /\ user' = [user EXCEPT ![w].mode = SNMP_ACCESS_READ_WRITE]
  /\ UNCHANGED <<mib, snmpGroup, usmStats, request, response, status,
                 committed>>

\* The snmpLockMib call and the loop's initialisation (index = 1).
HandlerLock(w, loopPc, unlockPc) ==
  /\ snmpLockMib(w)
  /\ hist' = [hist EXCEPT ![w].locks = @ + 1, ![w].snap = committed]
  /\ local' = [local EXCEPT ![w].index = 1]
  /\ pc' = [pc EXCEPT ![w] = IF local[w].length > 0 THEN loopPc ELSE unlockPc]
  /\ UNCHANGED <<mib, snmpGroup, user, usmStats, request, response, status,
                 committed>>

\* The loop entered without the snmpLockMib call.
HandlerNoLock(w, loopPc, unlockPc) ==
  /\ local' = [local EXCEPT ![w].index = 1]
  /\ pc' = [pc EXCEPT ![w] = IF local[w].length > 0 THEN loopPc ELSE unlockPc]
  /\ UNCHANGED <<mibLock, mib, snmpGroup, user, usmStats, request, response,
                 status, hist, committed>>
GetRequestNoLock(w) ==
  /\ pc[w] = "getLock"
  /\ HandlerNoLock(w, "getLoop", "getUnlock")

GetRequestLock(w) ==
  /\ pc[w] = "getLock"
  /\ HandlerLock(w, "getLoop", "getUnlock")

\* A search failure that never leaves the loop: it is handed to the
\* exception handling of lines 263-297 like a failed snmpGetObjectValue.
GetNextStopsNever(v1, error) == FALSE

\* A search failure that always leaves the loop, the end of the MIB view
\* included.
GetNextStopsAlways(v1, error) == error # NO_ERROR

\* Lines 220-260: after snmpGetNextObject failed with error, the loop is left
\* ("Stop immediately") unless SNMPv2c/v3 turns the error into endOfMibView.
GetNextStops(v1, error) ==
  IF v1 THEN error # NO_ERROR
  ELSE error # NO_ERROR /\ error # ERROR_OBJECT_NOT_FOUND

\* Lines 197-261 of one iteration: decode the binding, check its identifier,
\* and query the store.  brk: the loop is left with error.
GetRetrieve(w) ==
  LET b == Cursor(w)
      v1 == request[w].version = SNMP_VERSION_1
      fetch(oid, ops) ==
        LET g == snmpGetObjectValue(oid, mib, snmpGroup) IN
        [brk |-> FALSE, error |-> g.error,
         var |-> IF g.error = NO_ERROR
                   THEN VarBind(oid, TAG_VALUE, g.val)
                   ELSE VarBind(oid, b.tag, b.val),
         ops |-> Append(ops, StoreOp("get", oid, g.error, g.val))]
      stop(err, ops) == [brk |-> TRUE, error |-> err, var |-> b, ops |-> ops]
  IN IF snmpParseVarBinding(b) # NO_ERROR
       THEN stop(snmpParseVarBinding(b), <<>>)
     ELSE IF oidCheck(b.oid) # NO_ERROR
       THEN stop(oidCheck(b.oid), <<>>)
     ELSE IF request[w].pduType = SNMP_PDU_GET_REQUEST
       THEN fetch(b.oid, <<>>)
     ELSE LET n == snmpGetNextObject(b.oid)
              ops == <<StoreOp("getNext", b.oid, n.error, NoValue)>>
          IN IF n.error = NO_ERROR
               THEN fetch(n.oid, ops)
             ELSE IF GetNextStops(v1, n.error)
               THEN stop(n.error, ops)
             ELSE IF ~v1 /\ n.error = ERROR_OBJECT_NOT_FOUND
               THEN [brk |-> FALSE, error |-> NO_ERROR,
                     var |-> VarBind(b.oid, SNMP_EXCEPTION_END_OF_MIB_VIEW,
                                     NoValue),
                     ops |-> ops]
             ELSE [brk |-> FALSE, error |-> n.error, var |-> b, ops |-> ops]

\* Every failed retrieval stops the request, whatever the version.
GetExceptionNone(error) == TAG_NULL

\* Lines 275-296: the exception an SNMPv2c/v3 response carries for a failed
\* retrieval, TAG_NULL when the failure stops the request.
GetException(error) ==
  IF error = ERROR_ACCESS_DENIED \/ error = ERROR_OBJECT_NOT_FOUND
    THEN SNMP_EXCEPTION_NO_SUCH_OBJECT
  ELSE IF error = ERROR_INSTANCE_NOT_FOUND
    THEN SNMP_EXCEPTION_NO_SUCH_INSTANCE
  ELSE TAG_NULL

\* Lines 263-304: a failed retrieval stops an SNMPv1 request and becomes an
\* exception in SNMPv2c/v3; a retrieved variable is counted.
GetCatchException(version, r) ==
  LET exception(tag) ==
        [brk |-> FALSE, error |-> r.error,
         var |-> VarBind(r.var.oid, tag, NoValue), ops |-> r.ops, inc |-> 0]
      stop == [brk |-> TRUE, error |-> r.error, var |-> r.var, ops |-> r.ops,
               inc |-> 0]
  IN IF r.brk THEN stop
     ELSE IF r.error # NO_ERROR
       THEN IF version = SNMP_VERSION_1 THEN stop
            ELSE IF GetException(r.error) # TAG_NULL
              THEN exception(GetException(r.error))
            ELSE stop
     ELSE [brk |-> FALSE, error |-> NO_ERROR, var |-> r.var, ops |-> r.ops,
           inc |-> 1]

\* One iteration of the loop (lines 195-315); a break leads to brkPc.
GetRequestIteration(w, brkPc) ==
  /\ pc[w] = "getLoop"
  /\ LET r == GetCatchException(request[w].version, GetRetrieve(w))
         wr == snmpWriteVarBinding(response[w], r.var)
         brk == r.brk \/ wr.error # NO_ERROR
     IN /\ hist' = [hist EXCEPT ![w].ops = @ \o Stamp(w, local[w].index, r.ops)]
        /\ snmpGroup' = IF r.inc = 1
                          THEN Inc(snmpGroup, "snmpInTotalReqVars")
                          ELSE snmpGroup
        /\ response' = [response EXCEPT ![w] =
                          IF r.brk THEN @ ELSE wr.response]
        /\ local' =
             [local EXCEPT ![w] =
                IF brk
                  THEN [@ EXCEPT !.error = IF r.brk THEN r.error ELSE wr.error,
                                 !.var = r.var]
                  ELSE [@ EXCEPT !.error = NO_ERROR, !.var = r.var,
                                 !.p = @ + 1, !.length = @ - 1,
                                 !.index = @ + 1]]
        /\ pc' = [pc EXCEPT ![w] =
                    IF brk THEN brkPc
                    ELSE IF local[w].length - 1 = 0 THEN "getUnlock"
                    ELSE "getLoop"]
  /\ UNCHANGED <<mibLock, mib, user, usmStats, request, status, committed>>

\* A break that leaves the handler's loop past the snmpUnlockMib call.
GetRequestLoopNoUnlock(w) == GetRequestIteration(w, "getFinish")

GetRequestLoop(w) == GetRequestIteration(w, "getUnlock")

\* A handler that goes on past its loop without the snmpUnlockMib call.
HandlerKeepsLock(w, nextPc) ==
  /\ mibLock' = mibLock
  /\ hist' = [hist EXCEPT ![w].unlocks = @ + 1]
  /\ pc' = [pc EXCEPT ![w] = nextPc]
  /\ committed' =
       IF request[w].pduType = SNMP_PDU_SET_REQUEST THEN mib ELSE committed
  /\ UNCHANGED <<mib, snmpGroup, user, usmStats, request, response, local,
                 status>>

\* The snmpUnlockMib call that follows the loop.
HandlerUnlock(w, nextPc) ==
  /\ snmpUnlockMib(w)
  /\ hist' = [hist EXCEPT ![w].unlocks = @ + 1]
  /\ pc' = [pc EXCEPT ![w] = nextPc]
  /\ committed' =
       IF request[w].pduType = SNMP_PDU_SET_REQUEST THEN mib ELSE committed
  /\ UNCHANGED <<mib, snmpGroup, user, usmStats, request, response, local,
                 status>>

GetRequestUnlock(w) ==
  /\ pc[w] = "getUnlock"
  /\ HandlerUnlock(w, "getFinish")

\* The status translation called without the index of the failed binding.
TranslateNoIndex(w) ==
  snmpTranslateStatusCode(response[w], local[w].error, 0)

\* The status translation: error-status and error-index of the failure, and
\* what the caller does next with the outcome.
Translate(w) ==
  snmpTranslateStatusCode(response[w], local[w].error, local[w].index)
Translated(w) ==
  [hist EXCEPT ![w].translate =
     Append(@, [status |-> local[w].error, index |-> local[w].index])]

\* No alternate Response-PDU: every failure is answered with the request's
\* bindings.
AlternateResponseNever(resp) == FALSE

\* Lines 330-331: whether an alternate Response-PDU (empty variable-bindings
\* field) is sent.
AlternateResponse(resp) ==
  resp.version # SNMP_VERSION_1 /\ resp.errorStatus = SNMP_ERROR_TOO_BIG

\* Lines 320-350: on a failure, the status translation and the re-formatted
\* (or, for tooBig in SNMPv2c/v3, empty) variable-binding list.
GetRequestFinish(w) ==
  /\ pc[w] = "getFinish"
  /\ UNCHANGED <<mibLock, mib, snmpGroup, user, usmStats, request, local,
                 committed>>
  /\ IF local[w].error # NO_ERROR
       THEN LET t == Translate(w)
                alt == AlternateResponse(t.response)
                c == snmpCopyVarBindingList(request[w], t.response)
            IN /\ hist' = Translated(w)
               /\ IF t.error # NO_ERROR
                    THEN Return(w, t.error) /\ UNCHANGED response
                  ELSE IF alt
                    THEN /\ response' =
                              [response EXCEPT ![w] =
                                 [t.response EXCEPT !.varBindList = <<>>]]
                         /\ Return(w, NO_ERROR)
                  ELSE /\ response' = [response EXCEPT ![w] = c.response]
                       /\ Return(w, c.error)
       ELSE /\ Return(w, NO_ERROR)
            /\ UNCHANGED <<response, hist>>

\* -------------------------------------------- snmpProcessGetBulkRequestPdu

\* Lines 376-381: the SNMP version identifier is valid for a GetBulkRequest.
\* A handler that accepts a GetBulkRequest of every version.
BulkVersionAny(version) == TRUE
BulkVersionValid(version) == version # SNMP_VERSION_1

\* Entry: version check, access policy, snmpInitResponse, cursor set-up.
GetBulkRequestEntry(w) ==
  /\ pc[w] = "bulk"
  /\ UNCHANGED <<mibLock, mib, user, usmStats, request, hist, committed>>
  /\ IF ~BulkVersionValid(request[w].version)
       THEN /\ Return(w, ERROR_INVALID_TYPE)
            /\ UNCHANGED <<snmpGroup, response, local>>
     ELSE IF ~ReadAllowed(user[w].mode)
       THEN /\ snmpGroup' = Inc(snmpGroup, "snmpInBadCommunityUses")
            /\ Return(w, ERROR_ACCESS_DENIED)
            /\ UNCHANGED <<response, local>>
     ELSE /\ UNCHANGED snmpGroup
          /\ InitResponse(w, "bulkLock")

GetBulkRequestNoLock(w) ==
  /\ pc[w] = "bulkLock"
  /\ HandlerNoLock(w, "bulkLoop", "bulkUnlock")

GetBulkRequestLock(w) ==
  /\ pc[w] = "bulkLock"
  /\ HandlerLock(w, "bulkLoop", "bulkUnlock")

\* Lines 412-431: at the first repeating variable of a round, remember where
\* the round's bindings start in the response and reset the endOfMibView flag.
BulkRoundStart(w) ==
  IF local[w].index - 1 = request[w].nonRepeaters
    THEN [local[w] EXCEPT !.next = Len(response[w].varBindList),
                          !.m = Len(response[w].varBindList),
                          !.endOfMibView = TRUE]
    ELSE local[w]

\* A retrieval that leaves out the variables that were at the end of the MIB
\* view in the round before: their binding is repeated without a search.
BulkRetrieveSkipsExhausted(w) ==
  IF Cursor(w).tag = SNMP_EXCEPTION_END_OF_MIB_VIEW
    THEN [brk |-> FALSE, error |-> NO_ERROR, var |-> Cursor(w), ops |-> <<>>,
          found |-> FALSE]
    ELSE
    LET b == Cursor(w)
        stop(err, ops) ==
          [brk |-> TRUE, error |-> err, var |-> b, ops |-> ops, found |-> FALSE]
    IN IF snmpParseVarBinding(b) # NO_ERROR
         THEN stop(snmpParseVarBinding(b), <<>>)
       ELSE IF oidCheck(b.oid) # NO_ERROR
         THEN stop(oidCheck(b.oid), <<>>)
       ELSE LET n == snmpGetNextObject(b.oid)
                ops == <<StoreOp("getNext", b.oid, n.error, NoValue)>>
                g == snmpGetObjectValue(n.oid, mib, snmpGroup)
            IN IF n.error = NO_ERROR
                 THEN [brk |-> FALSE, error |-> g.error,
                       var |-> IF g.error = NO_ERROR
                                 THEN VarBind(n.oid, TAG_VALUE, g.val)
                                 ELSE VarBind(n.oid, b.tag, b.val),
                       ops |-> Append(ops,
                                      StoreOp("get", n.oid, g.error, g.val)),
                       found |-> TRUE]
               ELSE IF n.error = ERROR_OBJECT_NOT_FOUND
                 THEN [brk |-> FALSE, error |-> NO_ERROR,
                       var |-> VarBind(b.oid, SNMP_EXCEPTION_END_OF_MIB_VIEW,
                                       NoValue),
                       ops |-> ops, found |-> FALSE]
               ELSE stop(n.error, ops)

\* Lines 433-470: decode, check the identifier, search the next object and
\* fetch its value.  found: snmpGetNextObject succeeded.
BulkRetrieve(w) ==
  LET b == Cursor(w)
      stop(err, ops) ==
        [brk |-> TRUE, error |-> err, var |-> b, ops |-> ops, found |-> FALSE]
  IN IF snmpParseVarBinding(b) # NO_ERROR
       THEN stop(snmpParseVarBinding(b), <<>>)
     ELSE IF oidCheck(b.oid) # NO_ERROR
       THEN stop(oidCheck(b.oid), <<>>)
     ELSE LET n == snmpGetNextObject(b.oid)
              ops == <<StoreOp("getNext", b.oid, n.error, NoValue)>>
              g == snmpGetObjectValue(n.oid, mib, snmpGroup)
          IN IF n.error = NO_ERROR
               THEN [brk |-> FALSE, error |-> g.error,
                     var |-> IF g.error = NO_ERROR
                               THEN VarBind(n.oid, TAG_VALUE, g.val)
                               ELSE VarBind(n.oid, b.tag, b.val),
                     ops |-> Append(ops,
                                    StoreOp("get", n.oid, g.error, g.val)),
                     found |-> TRUE]
             ELSE IF n.error = ERROR_OBJECT_NOT_FOUND
               THEN [brk |-> FALSE, error |-> NO_ERROR,
                     var |-> VarBind(b.oid, SNMP_EXCEPTION_END_OF_MIB_VIEW,
                                     NoValue),
                     ops |-> ops, found |-> FALSE]
             ELSE stop(n.error, ops)

\* Lines 472-503: a failed retrieval becomes an exception or stops the loop.
BulkCatchException(r) ==
  LET exception(tag) ==
        [brk |-> FALSE, error |-> r.error,
         var |-> VarBind(r.var.oid, tag, NoValue), ops |-> r.ops, inc |-> 0,
         found |-> r.found]
      stop == [brk |-> TRUE, error |-> r.error, var |-> r.var, ops |-> r.ops,
               inc |-> 0, found |-> r.found]
  IN IF r.brk THEN stop
     ELSE IF r.error # NO_ERROR
       THEN IF r.error = ERROR_ACCESS_DENIED \/
               r.error = ERROR_OBJECT_NOT_FOUND
              THEN exception(SNMP_EXCEPTION_NO_SUCH_OBJECT)
            ELSE IF r.error = ERROR_INSTANCE_NOT_FOUND
              THEN exception(SNMP_EXCEPTION_NO_SUCH_INSTANCE)
            ELSE stop
     ELSE [brk |-> FALSE, error |-> NO_ERROR, var |-> r.var, ops |-> r.ops,
           inc |-> 1, found |-> r.found]

\* Lines 414, 428-430: at the first repeating variable, a max-repetitions
\* field of zero trims the list to the non-repeating variable bindings.
\* A list that is never trimmed.
BulkTrimmedNever(index, req) == FALSE
BulkTrimmed(index, req) ==
  index - 1 = req.nonRepeaters /\ req.maxRepetitions = 0

\* Lines 521-527: after a round, with reps repetitions left: the last
\* iteration, or all bindings of the round have the value endOfMibView.
\* A repeat counter that is never decremented.
BulkRepetitionsKept(reps) == reps
\* Line 519: the repeat counter after a round.
BulkRepetitionsLeft(reps) == reps - 1

\* A walk that only the count of repetitions stops.
BulkLastRoundRepsOnly(reps, eom) == reps = 0
BulkLastRound(reps, eom) == reps = 0 \/ eom

\* A next repetition that walks the repeating bindings of the request again.
BulkRewindToRequest(w, l, len) ==
  [l EXCEPT !.buf = "request",
            !.p = request[w].nonRepeaters,
            !.length = Len(request[w].varBindList) - request[w].nonRepeaters,
            !.index = request[w].nonRepeaters + 1]

\* Lines 529-533: the cursor of the next repetition, over the bindings just
\* written to the response (len: its length now); the index is rewound.
BulkRewind(w, l, len) ==
  [l EXCEPT !.buf = "response",
            !.p = l.next,
            !.length = len - l.m,
            !.index = request[w].nonRepeaters + 1]

\* One iteration of the loop (lines 410-535).
GetBulkRequestLoop(w) ==
  /\ pc[w] = "bulkLoop"
  /\ UNCHANGED <<mibLock, mib, user, usmStats, status, committed>>
  /\ LET l0 == BulkRoundStart(w) IN
     IF BulkTrimmed(local[w].index, request[w])
       THEN \* the list is trimmed to the non-repeating bindings
            /\ local' = [local EXCEPT ![w] = l0]
            /\ pc' = [pc EXCEPT ![w] = "bulkUnlock"]
            /\ UNCHANGED <<snmpGroup, request, response, hist>>
       ELSE
         LET r == BulkCatchException(BulkRetrieve(w))
             wr == snmpWriteVarBinding(response[w], r.var)
             brk == r.brk \/ wr.error # NO_ERROR
             eom == l0.endOfMibView /\ ~r.found
             \* the cursor after "p += n; length -= n"
             l1 == [l0 EXCEPT !.error = NO_ERROR, !.var = r.var,
                              !.endOfMibView = eom,
                              !.p = @ + 1, !.length = @ - 1]
             roundEnd == l1.length = 0 /\
                         l1.index > request[w].nonRepeaters
             reps == BulkRepetitionsLeft(request[w].maxRepetitions)
         IN /\ hist' = [hist EXCEPT ![w].ops =
                          @ \o Stamp(w, local[w].index, r.ops)]
            /\ snmpGroup' = IF r.inc = 1
                              THEN Inc(snmpGroup, "snmpInTotalReqVars")
                              ELSE snmpGroup
            /\ response' = [response EXCEPT ![w] =
                              IF r.brk THEN @ ELSE wr.response]
            /\ IF brk
                 THEN /\ local' =
                           [local EXCEPT ![w] =
                              [l0 EXCEPT
                                 !.error = IF r.brk THEN r.error ELSE wr.error,
                                 !.var = r.var,
                                 !.endOfMibView = eom]]
                      /\ pc' = [pc EXCEPT ![w] = "bulkUnlock"]
                      /\ UNCHANGED request
               ELSE IF ~roundEnd
                 THEN /\ local' = [local EXCEPT ![w] =
                                     [l1 EXCEPT !.index = @ + 1]]
                      /\ pc' = [pc EXCEPT ![w] =
                                  IF l1.length > 0
                                    THEN "bulkLoop" ELSE "bulkUnlock"]
                      /\ UNCHANGED request
               ELSE /\ request' = [request EXCEPT ![w].maxRepetitions = reps]
                    /\ IF BulkLastRound(reps, eom)
                         THEN /\ local' = [local EXCEPT ![w] = l1]
                              /\ pc' = [pc EXCEPT ![w] = "bulkUnlock"]
                         ELSE \* next repetition: walk the bindings just
                              \* written, index rewound and then incremented
                              /\ local' =
                                   [local EXCEPT ![w] =
                                      BulkRewind(w, l1,
                                        Len(wr.response.varBindList))]
                              /\ pc' = [pc EXCEPT ![w] = "bulkLoop"]

GetBulkRequestUnlock(w) ==
  /\ pc[w] = "bulkUnlock"
  /\ HandlerUnlock(w, "bulkFinish")

\* An overflow handled like every other failure.
BulkTruncatesNever(error) == FALSE
\* Line 541: the response is generated with a lesser number of bindings.
BulkTruncates(error) == error = ERROR_BUFFER_OVERFLOW

\* Lines 540-564: a buffer overflow shortens the response; another failure is
\* translated and the request's bindings are copied to the response.
GetBulkRequestFinish(w) ==
  /\ pc[w] = "bulkFinish"
  /\ UNCHANGED <<mibLock, mib, snmpGroup, user, usmStats, request, local,
                 committed>>
  /\ IF BulkTruncates(local[w].error)
       THEN /\ Return(w, NO_ERROR)
            /\ UNCHANGED <<response, hist>>
     ELSE IF local[w].error # NO_ERROR
       THEN LET t == Translate(w)
                c == snmpCopyVarBindingList(request[w], t.response)
            IN /\ hist' = Translated(w)
               /\ IF t.error # NO_ERROR
                    THEN Return(w, t.error) /\ UNCHANGED response
                    ELSE /\ response' = [response EXCEPT ![w] = c.response]
                         /\ IF c.error # NO_ERROR
                              THEN Return(w, c.error)
                              ELSE Return(w, NO_ERROR)
     ELSE /\ Return(w, NO_ERROR)
          /\ UNCHANGED <<response, hist>>

\* ------------------------------------------------ snmpProcessSetRequestPdu

\* An entry that counts the SetRequests that passed the access policy only.
SetRequestEntryCountsAdmitted(w) ==
  /\ pc[w] = "set"
  /\ UNCHANGED <<mibLock, mib, user, usmStats, request, hist, committed>>
  /\ IF ~WriteAllowed(user[w].mode)
       THEN /\ snmpGroup' = Inc(snmpGroup, "snmpInBadCommunityUses")
            /\ Return(w, ERROR_ACCESS_DENIED)
            /\ UNCHANGED <<response, local>>
       ELSE /\ snmpGroup' = Inc(snmpGroup, "snmpInSetRequests")
            /\ InitResponse(w, "setLock")

\* Entry: request counter, access policy, snmpInitResponse, cursor set-up.
SetRequestEntry(w) ==
  /\ pc[w] = "set"
  /\ UNCHANGED <<mibLock, mib, user, usmStats, request, hist, committed>>
  /\ LET counted == Inc(snmpGroup, "snmpInSetRequests") IN
     IF ~WriteAllowed(user[w].mode)
       THEN /\ snmpGroup' = Inc(counted, "snmpInBadCommunityUses")
            /\ Return(w, ERROR_ACCESS_DENIED)
            /\ UNCHANGED <<response, local>>
       ELSE /\ snmpGroup' = counted
            /\ InitResponse(w, "setLock")

\* A second phase entered whatever the first one's outcome.
SetSecondPhaseAlways(error) == TRUE

\* Line 643: the second phase is entered if all validations are successful.
SetSecondPhase(error) == error = NO_ERROR

\* A second phase that goes on counting where the first one stopped.
SetAfterValidationCounting(w, l) ==
  IF SetSecondPhase(l.error)
    THEN [pc |-> IF Len(request[w].varBindList) > 0
                   THEN "setCommit" ELSE "setUnlock",
          local |-> [l EXCEPT !.p = 0,
                              !.length = Len(request[w].varBindList)]]
    ELSE [pc |-> "setUnlock", local |-> l]

\* The position after the first phase ended with error: the commit loop over
\* the request's list from its start, or the snmpUnlockMib call.
SetAfterValidation(w, l) ==
  IF SetSecondPhase(l.error)
    THEN [pc |-> IF Len(request[w].varBindList) > 0
                   THEN "setCommit" ELSE "setUnlock",
          local |-> [l EXCEPT !.p = 0,
                              !.length = Len(request[w].varBindList),
                              !.index = 1]]
    ELSE [pc |-> "setUnlock", local |-> l]

SetRequestLock(w) ==
  /\ pc[w] = "setLock"
  /\ snmpLockMib(w)
  /\ hist' = [hist EXCEPT ![w].locks = @ + 1, ![w].snap = committed]
  /\ LET l == [local[w] EXCEPT !.index = 1]
         a == SetAfterValidation(w, l)
     IN IF l.length > 0
          THEN /\ local' = [local EXCEPT ![w] = l]
               /\ pc' = [pc EXCEPT ![w] = "setValidate"]
          ELSE /\ local' = [local EXCEPT ![w] = a.local]
               /\ pc' = [pc EXCEPT ![w] = a.pc]
  /\ UNCHANGED <<mib, snmpGroup, user, usmStats, request, response, status,
                 committed>>

\* Lines 624-638 and 652-671: decode the binding and assign the value.
SetAssign(w, commit) ==
  LET b == Cursor(w)
      st == snmpSetObjectValue(b.oid, commit)
  IN IF snmpParseVarBinding(b) # NO_ERROR
       THEN [error |-> snmpParseVarBinding(b), var |-> b, ops |-> <<>>]
       ELSE [error |-> st, var |-> b,
             ops |-> <<StoreOp(IF commit THEN "commit" ELSE "check",
                               b.oid, st, b.val)>>]

\* One iteration of the first loop (lines 622-639): validation.
SetRequestValidate(w) ==
  /\ pc[w] = "setValidate"
  /\ UNCHANGED <<mibLock, mib, snmpGroup, user, usmStats, request, response,
                 status, committed>>
  /\ LET r == SetAssign(w, FALSE)
         l == IF r.error # NO_ERROR
                THEN [local[w] EXCEPT !.error = r.error, !.var = r.var]
                ELSE [local[w] EXCEPT !.error = NO_ERROR, !.var = r.var,
                                      !.p = @ + 1, !.length = @ - 1,
                                      !.index = @ + 1]
         a == SetAfterValidation(w, l)
     IN /\ hist' = [hist EXCEPT ![w].ops = @ \o Stamp(w, local[w].index, r.ops)]
        /\ IF r.error = NO_ERROR /\ l.length > 0
             THEN /\ local' = [local EXCEPT ![w] = l]
                  /\ pc' = [pc EXCEPT ![w] = "setValidate"]
             ELSE /\ local' = [local EXCEPT ![w] = a.local]
                  /\ pc' = [pc EXCEPT ![w] = a.pc]

\* A second loop that goes on with the next binding after a failed commit.
SetRequestCommitGoesOn(w) ==
  /\ pc[w] = "setCommit"
  /\ UNCHANGED <<mibLock, user, usmStats, request, response, status, committed>>
  /\ LET r == SetAssign(w, TRUE) IN
     /\ hist' = [hist EXCEPT ![w].ops = @ \o Stamp(w, local[w].index, r.ops)]
     /\ IF r.error # NO_ERROR
          THEN UNCHANGED <<mib, snmpGroup>>
          ELSE /\ mib' = MibCommit(mib, r.var.oid, r.var.val)
               /\ snmpGroup' = Inc(snmpGroup, "snmpInTotalSetVars")
     /\ local' = [local EXCEPT ![w].error = r.error,
                               ![w].var = r.var,
                               ![w].p = @ + 1,
                               ![w].length = @ - 1,
                               ![w].index = @ + 1]
     /\ pc' = [pc EXCEPT ![w] =
                 IF local[w].length - 1 > 0 THEN "setCommit" ELSE "setUnlock"]

\* One iteration of the second loop (lines 650-672): commit.
SetRequestCommit(w) ==
  /\ pc[w] = "setCommit"
  /\ UNCHANGED <<mibLock, user, usmStats, request, response, status, committed>>
  /\ LET r == SetAssign(w, TRUE) IN
     /\ hist' = [hist EXCEPT ![w].ops = @ \o Stamp(w, local[w].index, r.ops)]
     /\ IF r.error # NO_ERROR
          THEN /\ local' = [local EXCEPT ![w].error = r.error, ![w].var = r.var]
               /\ pc' = [pc EXCEPT ![w] = "setUnlock"]
               /\ UNCHANGED <<mib, snmpGroup>>
          ELSE /\ mib' = MibCommit(mib, r.var.oid, r.var.val)
               /\ snmpGroup' = Inc(snmpGroup, "snmpInTotalSetVars")
               /\ local' = [local EXCEPT ![w].error = NO_ERROR,
                                         ![w].var = r.var,
                                         ![w].p = @ + 1,
                                         ![w].length = @ - 1,
                                         ![w].index = @ + 1]
               /\ pc' = [pc EXCEPT ![w] =
                           IF local[w].length - 1 > 0
                             THEN "setCommit" ELSE "setUnlock"]

SetRequestUnlock(w) ==
  /\ pc[w] = "setUnlock"
  /\ HandlerUnlock(w, "setFinish")

\* A Set handler that returns after the status translation, without giving
\* the response the request's variable bindings.
SetRequestFinishNoCopy(w) ==
  /\ pc[w] = "setFinish"
  /\ UNCHANGED <<mibLock, mib, snmpGroup, user, usmStats, request, local,
                 committed>>
  /\ LET t == IF local[w].error # NO_ERROR
                THEN Translate(w)
                ELSE [error |-> NO_ERROR, response |-> response[w]]
     IN /\ hist' = IF local[w].error # NO_ERROR THEN Translated(w) ELSE hist
        /\ IF t.error # NO_ERROR
             THEN Return(w, t.error) /\ UNCHANGED response
             ELSE /\ response' = [response EXCEPT ![w] = t.response]
                  /\ Return(w, NO_ERROR)

\* Lines 678-691: the status translation of a failure, then the response is
\* given the request's variable bindings.
SetRequestFinish(w) ==
  /\ pc[w] = "setFinish"
  /\ UNCHANGED <<mibLock, mib, snmpGroup, user, usmStats, request, local,
                 committed>>
  /\ LET t == IF local[w].error # NO_ERROR
                THEN Translate(w)
                ELSE [error |-> NO_ERROR, response |-> response[w]]
         c == snmpCopyVarBindingList(request[w], t.response)
     IN /\ hist' = IF local[w].error # NO_ERROR THEN Translated(w) ELSE hist
        /\ IF t.error # NO_ERROR
             THEN Return(w, t.error) /\ UNCHANGED response
             ELSE /\ response' = [response EXCEPT ![w] = c.response]
                  /\ Return(w, c.error)

\* ---------------------------------------------------- snmpFormatReportPdu

\* The error indications of the security processing that are reported.
ERROR_UNSUPPORTED_SECURITY_LEVEL == "ERROR_UNSUPPORTED_SECURITY_LEVEL"
ERROR_NOT_IN_TIME_WINDOW == "ERROR_NOT_IN_TIME_WINDOW"
ERROR_UNKNOWN_USER_NAME == "ERROR_UNKNOWN_USER_NAME"
ERROR_UNKNOWN_ENGINE_ID == "ERROR_UNKNOWN_ENGINE_ID"
ERROR_AUTHENTICATION_FAILED == "ERROR_AUTHENTICATION_FAILED"
ERROR_DECRYPTION_FAILED == "ERROR_DECRYPTION_FAILED"
ERROR_UNAVAILABLE_CONTEXT == "ERROR_UNAVAILABLE_CONTEXT"
ERROR_UNKNOWN_CONTEXT == "ERROR_UNKNOWN_CONTEXT"
FailureCauses ==
  {ERROR_UNSUPPORTED_SECURITY_LEVEL, ERROR_NOT_IN_TIME_WINDOW,
   ERROR_UNKNOWN_USER_NAME, ERROR_UNKNOWN_ENGINE_ID,
   ERROR_AUTHENTICATION_FAILED, ERROR_DECRYPTION_FAILED,
   ERROR_UNAVAILABLE_CONTEXT, ERROR_UNKNOWN_CONTEXT}

\* The bits of msgFlags; a value of the field is the set of the bits set.
SNMP_MSG_FLAG_AUTH == "auth"
SNMP_MSG_FLAG_PRIV == "priv"
SNMP_MSG_FLAG_REPORTABLE == "reportable"

\* The counter objects; an identifier is the name of its counter.  NullOid is
\* the identifier of length 0.
usmStatsUnsupportedSecLevelsObject == "usmStatsUnsupportedSecLevels"
usmStatsNotInTimeWindowsObject == "usmStatsNotInTimeWindows"
usmStatsUnknownUserNamesObject == "usmStatsUnknownUserNames"
usmStatsUnknownEngineIdsObject == "usmStatsUnknownEngineIDs"
usmStatsWrongDigestsObject == "usmStatsWrongDigests"
usmStatsDecryptionErrorsObject == "usmStatsDecryptionErrors"
snmpUnavailableContextsObject == "snmpUnavailableContexts"
snmpUnknownContextsObject == "snmpUnknownContexts"
NullOid == "NULL"
MIB_TYPE_COUNTER32 == "counter32"

\* The counters behind these objects when the agent starts: the six of
\* usmStats and the two of the message processing.
NoUsmStats ==
  [o \in {usmStatsUnsupportedSecLevelsObject, usmStatsNotInTimeWindowsObject,
          usmStatsUnknownUserNamesObject, usmStatsUnknownEngineIdsObject,
          usmStatsWrongDigestsObject, usmStatsDecryptionErrorsObject,
          snmpUnavailableContextsObject, snmpUnknownContextsObject} |-> 0]

\* snmpInitMessage for the fields of an SNMPv3 message.
NoName == ""
snmpInitV3Message ==
  snmpInitMessage @@
  [msgId |-> 0, msgFlags |-> {}, msgUserName |-> NoName, requestId |-> 0]

\* snmpComputeMessageOverhead: the room the header of the message leaves to
\* the variable bindings; it fails when the header alone does not fit.
snmpComputeMessageOverhead(resp, room) ==
  IF room = 0
    THEN [error |-> ERROR_BUFFER_OVERFLOW, response |-> resp]
    ELSE [error |-> NO_ERROR,
          response |-> [resp EXCEPT !.varBindListMaxLen = room]]

\* The parameter and the locals of snmpFormatReportPdu.
ReportLocal(errorIndication) ==
  [errorIndication |-> errorIndication, counter |-> 0, var |-> NoVar,
   error |-> NO_ERROR]

\* Lines 754-755: the flags of the report of a message outside of the time
\* window.
TimeWindowFlags(flags) == flags \cap {SNMP_MSG_FLAG_AUTH, SNMP_MSG_FLAG_PRIV}

\* Lines 710-774: the header fields of the report and the message overhead.
ReportHeader(w) ==
  /\ pc[w] = "report"
  /\ UNCHANGED <<mibLock, mib, snmpGroup, user, usmStats, request, local,
                 hist, committed>>
  /\ LET fields ==
           [snmpInitV3Message EXCEPT !.version = request[w].version,
                                     !.msgId = request[w].msgId,
                                     !.msgFlags = {},
                                     !.pduType = SNMP_PDU_REPORT,
                                     !.requestId = request[w].requestId]
         secured ==
           IF local[w].errorIndication = ERROR_NOT_IN_TIME_WINDOW
             THEN [fields EXCEPT
                     !.msgFlags = TimeWindowFlags(request[w].msgFlags),
                     !.msgUserName = request[w].msgUserName]
             ELSE fields
         o == snmpComputeMessageOverhead(secured, request[w].room)
     IN /\ response' = [response EXCEPT ![w] = o.response]
        /\ IF o.error # NO_ERROR
             THEN /\ status' = [status EXCEPT ![w] = o.error]
                  /\ pc' = [pc EXCEPT ![w] = "reported"]
             ELSE /\ pc' = [pc EXCEPT ![w] = "reportCounter"]
                  /\ UNCHANGED status

\* A counter that is incremented and read back.
Counted(stats, object) ==
  [stats |-> [stats EXCEPT ![object] = @ + 1], counter |-> stats[object] + 1,
   oid |-> object]
\* A value that no counter backs.
Constant(stats, object) == [stats |-> stats, counter |-> 1, oid |-> object]

\* A table that counts the messages of every cause.
ReportCounterAll(errorIndication, stats) ==
  CASE errorIndication = ERROR_UNSUPPORTED_SECURITY_LEVEL ->
         Counted(stats, usmStatsUnsupportedSecLevelsObject)
    [] errorIndication = ERROR_NOT_IN_TIME_WINDOW ->
         Counted(stats, usmStatsNotInTimeWindowsObject)
    [] errorIndication = ERROR_UNKNOWN_USER_NAME ->
         Counted(stats, usmStatsUnknownUserNamesObject)
    [] errorIndication = ERROR_UNKNOWN_ENGINE_ID ->
         Counted(stats, usmStatsUnknownEngineIdsObject)
    [] errorIndication = ERROR_AUTHENTICATION_FAILED ->
         Counted(stats, usmStatsWrongDigestsObject)
    [] errorIndication = ERROR_DECRYPTION_FAILED ->
         Counted(stats, usmStatsDecryptionErrorsObject)
    [] errorIndication = ERROR_UNAVAILABLE_CONTEXT ->
         Counted(stats, snmpUnavailableContextsObject)
    [] errorIndication = ERROR_UNKNOWN_CONTEXT ->
         Counted(stats, snmpUnknownContextsObject)
    [] OTHER -> Constant(stats, NullOid)

\* Lines 776-870: "counter = 1", then the switch on the error indication.
ReportCounter(errorIndication, stats) ==
  CASE errorIndication = ERROR_UNSUPPORTED_SECURITY_LEVEL ->
         Counted(stats, usmStatsUnsupportedSecLevelsObject)
    [] errorIndication = ERROR_NOT_IN_TIME_WINDOW ->
         Counted(stats, usmStatsNotInTimeWindowsObject)
    [] errorIndication = ERROR_UNKNOWN_USER_NAME ->
         Counted(stats, usmStatsUnknownUserNamesObject)
    [] errorIndication = ERROR_UNKNOWN_ENGINE_ID ->
         Counted(stats, usmStatsUnknownEngineIdsObject)
    [] errorIndication = ERROR_AUTHENTICATION_FAILED ->
         Counted(stats, usmStatsWrongDigestsObject)
    [] errorIndication = ERROR_DECRYPTION_FAILED ->
         Counted(stats, usmStatsDecryptionErrorsObject)
    [] errorIndication = ERROR_UNAVAILABLE_CONTEXT ->
         Constant(stats, snmpUnavailableContextsObject)
    [] errorIndication = ERROR_UNKNOWN_CONTEXT ->
         Constant(stats, snmpUnknownContextsObject)
    [] OTHER -> Constant(stats, NullOid)

\* The counter of the cause is incremented and read, its object selected.
ReportSelect(w) ==
  /\ pc[w] = "reportCounter"
  /\ UNCHANGED <<mibLock, mib, snmpGroup, user, request, response, status,
                 hist, committed>>
  /\ LET c == ReportCounter(local[w].errorIndication, usmStats) IN
     /\ usmStats' = c.stats
     /\ local' = [local EXCEPT ![w].counter = c.counter,
                               ![w].var = VarBind(c.oid, TAG_NULL, NoValue)]
     /\ pc' = [pc EXCEPT ![w] = "reportEncode"]

\* Lines 872-896: the counter value is encoded, the binding appended and the
\* header of the PDU written.
ReportEncode(w) ==
  /\ pc[w] = "reportEncode"
  /\ UNCHANGED <<mibLock, mib, snmpGroup, user, usmStats, request, hist,
                 committed>>
  /\ LET var == VarBind(local[w].var.oid, MIB_TYPE_COUNTER32,
                        local[w].counter)
         wr == snmpWriteVarBinding(response[w], var)
     IN /\ local' = [local EXCEPT ![w].var = var, ![w].error = wr.error]
        /\ pc' = [pc EXCEPT ![w] = "reported"]
        /\ status' = [status EXCEPT ![w] = wr.error]
        /\ response' = [response EXCEPT ![w] =
                          IF wr.error # NO_ERROR
                            THEN @ ELSE snmpWritePduHeader(wr.response)]

\* ------------------------------------------------------------ the requests

ReadBindings(oids) == {ReadVb(o) : o \in oids}
SetBindings(oids) == {VarBind(o, TAG_VALUE, v) : o \in oids, v \in 1..MaxValue}
Lists(bindings, n) == UNION {[1..k -> bindings] : k \in 0..n}

Request(h, t, v, nr, mr, l, room) ==
  [header |-> h, pduType |-> t, version |-> v, nonRepeaters |-> nr,
   maxRepetitions |-> mr, varBindList |-> l, room |-> room]

ReadTypes == {SNMP_PDU_GET_REQUEST, SNMP_PDU_GET_NEXT_REQUEST}
GetRequests(versions, lists, rooms) ==
  {Request(NO_ERROR, t, v, 0, 0, l, r) :
     t \in ReadTypes, v \in versions, l \in lists, r \in rooms}
GetBulkRequests(versions, nrs, mrs, lists, rooms) ==
  {Request(NO_ERROR, SNMP_PDU_GET_BULK_REQUEST, v, nr, mr, l, r) :
     v \in versions, nr \in nrs, mr \in mrs, l \in lists, r \in rooms}
SetRequests(versions, lists, rooms) ==
  {Request(NO_ERROR, SNMP_PDU_SET_REQUEST, v, 0, 0, l, r) :
     v \in versions, l \in lists, r \in rooms}

\* Identifiers a read request names: every kind of object but the second
\* scalar, no object at all, or an invalid identifier.
ReadOids ==
  {OidInvalid, OidAbsent, OidFaulty, OidNoInstance, OidDenied, OidScalarA,
   OidInTotalReqVars}
\* Identifiers a SetRequest names: writable, failing at commit, rejected by
\* the validation.
WriteOids == {OidFaulty, OidDenied, OidScalarA, OidScalarB, OidInTotalReqVars}

\* A received message and the access mode of its sender.
Contexts(reqs, modes) == {[request |-> r, mode |-> m] : r \in reqs, m \in modes}

ReadLists(n) == Lists(ReadBindings(ReadOids) \cup {MalformedVb}, n)
WriteLists(n) == Lists(SetBindings(WriteOids) \cup {MalformedVb}, n)

\* The four requests with any list of at most n bindings.
VarBindRequests(n, rooms) ==
  GetRequests(Versions, ReadLists(n), rooms)
  \cup GetBulkRequests(Versions, 0..MaxBulkField, 0..MaxRepetitions,
                       ReadLists(n), rooms)
  \cup SetRequests(Versions, WriteLists(n), rooms)

\* The messages of the one-worker specification, with lists of at most n
\* bindings.  The access policy and the
\* layout of the response are decided before the first binding is decoded:
\* every access mode and a buffer without room are combined with the lists of
\* at most one binding, the longer lists come from a sender with read-write
\* access.  Besides: an undecodable header and the PDU types without
\* variable-binding processing.
Messages(n) ==
  Contexts({Request(ERROR_INVALID_TAG, SNMP_PDU_GET_REQUEST, SNMP_VERSION_1,
                    0, 0, <<>>, AmpleRoom)}
           \cup {Request(NO_ERROR, t, SNMP_VERSION_2C, 0, 0, <<>>, AmpleRoom) :
                   t \in {SNMP_PDU_GET_RESPONSE, SNMP_PDU_REPORT,
                          SNMP_PDU_TRAP}}
           \cup VarBindRequests(Min(1, n), Rooms),
           AccessModes)
  \cup Contexts(VarBindRequests(n, Rooms \ {0}),
                {SNMP_ACCESS_READ_WRITE})

NoCounters ==
  [snmpInGetRequests |-> 0, snmpInGetNexts |-> 0, snmpInSetRequests |-> 0,
   snmpInBadCommunityUses |-> 0, snmpInTotalReqVars |-> 0,
   snmpInTotalSetVars |-> 0, snmpOutGetResponses |-> 0]

\* One context per worker, each with a received message: ctxs is the set of
\* the assignments of a message to every worker.
InitWith(ctxs) ==
  /\ \E c \in ctxs :
       /\ request = [w \in DOMAIN c |-> c[w].request]
       /\ user = [w \in DOMAIN c |-> [mode |-> c[w].mode]]
  /\ mibLock = {}
  /\ mib = InitialMib
  /\ committed = InitialMib
  /\ snmpGroup = NoCounters
  /\ usmStats = NoUsmStats
  /\ pc = [w \in DOMAIN request |-> "start"]
  /\ response = [w \in DOMAIN request |-> snmpInitMessage]
  /\ local = [w \in DOMAIN request |-> NoLocal]
  /\ status = [w \in DOMAIN request |-> NO_ERROR]
  /\ hist = [w \in DOMAIN request |->
               [NoHist EXCEPT !.snap = InitialMib]]

Step(w) ==
  \/ snmpProcessPdu(w)
  \/ GetRequestEntry(w)
  \/ GetRequestLock(w)
  \/ GetRequestLoop(w)
  \/ GetRequestUnlock(w)
  \/ GetRequestFinish(w)
  \/ GetBulkRequestEntry(w)
  \/ GetBulkRequestLock(w)
  \/ GetBulkRequestLoop(w)
  \/ GetBulkRequestUnlock(w)
  \/ GetBulkRequestFinish(w)
  \/ SetRequestEntry(w)
  \/ SetRequestLock(w)
  \/ SetRequestValidate(w)
  \/ SetRequestCommit(w)
  \/ SetRequestUnlock(w)
  \/ SetRequestFinish(w)
  \/ snmpProcessPduEpilogue(w)

\* One worker.
Init == InitWith([{1} -> Messages(MaxBindings)])
Next == Step(1)
Spec == Init /\ [][Next]_vars

\* Two workers on one MIB, both with read-write access.  The first processes
\* a read or a write of the scalars and the counter, the second a SetRequest
\* on the scalars.
ConcMaxBindings == 2
ConcReadLists ==
  Lists(ReadBindings({OidScalarA, OidScalarB, OidInTotalReqVars}),
        ConcMaxBindings) \ {<<>>}
ConcSetLists ==
  Lists({VarBind(o, TAG_VALUE, 1) : o \in ScalarOids}, ConcMaxBindings)
    \ {<<>>}
ConcWrites == SetRequests({SNMP_VERSION_2C}, ConcSetLists, {AmpleRoom})
ConcRequests ==
  GetRequests({SNMP_VERSION_2C}, ConcReadLists, {AmpleRoom})
  \cup GetBulkRequests({SNMP_VERSION_2C}, {0, 1}, {2}, ConcReadLists,
                       {AmpleRoom})
  \cup ConcWrites

InitConc ==
  InitWith(Contexts(ConcRequests, {SNMP_ACCESS_READ_WRITE})
             \X Contexts(ConcWrites, {SNMP_ACCESS_READ_WRITE}))
NextConc == Step(1) \/ Step(2)
SpecConc == InitConc /\ [][NextConc]_vars

\* Two workers on one MIB, each with a read of the two scalars, a GetBulk
\* that walks FairRepetitions rounds from the first scalar, or a SetRequest
\* on two variables of which the second may fail at the commit.  The workers
\* are tasks of a scheduler that runs every task that can take a step: a
\* worker waiting for the gate goes on once the gate stays free.
FairRepetitions == 2
ConcWorkers == {1, 2}
FairRequests ==
  GetRequests({SNMP_VERSION_2C}, {<<ReadVb(OidScalarA), ReadVb(OidScalarB)>>},
              {AmpleRoom})
  \cup GetBulkRequests({SNMP_VERSION_2C}, {0}, {FairRepetitions},
                       {<<ReadVb(OidScalarA)>>}, {AmpleRoom})
  \cup SetRequests({SNMP_VERSION_2C},
                   {<<VarBind(OidScalarA, TAG_VALUE, 1),
                      VarBind(o, TAG_VALUE, 1)>> :
                        o \in {OidScalarB, OidFaulty}},
                   {AmpleRoom})
InitFair ==
  InitWith(Contexts(FairRequests, {SNMP_ACCESS_READ_WRITE})
             \X Contexts(FairRequests, {SNMP_ACCESS_READ_WRITE}))
SpecFair ==
  InitFair /\ [][NextConc]_vars /\ WF_vars(Step(1)) /\ WF_vars(Step(2))

\* One worker that processes MaxPdus messages one after the other, in the
\* same context: the response and the returned status of a message are what
\* the next one finds.  Each message is one of a few requests on the first
\* scalar, the counter of retrieved variables and an absent object, a message
\* with an undecodable header, a Report-PDU or a Trap-PDU.
MaxPdus == 3
SeqRequests ==
  GetRequests({SNMP_VERSION_2C},
              {<<ReadVb(OidScalarA)>>, <<ReadVb(OidInTotalReqVars)>>},
              {AmpleRoom})
  \cup {Request(NO_ERROR, SNMP_PDU_GET_REQUEST, SNMP_VERSION_1, 0, 0,
                 <<ReadVb(OidScalarA), ReadVb(OidAbsent)>>, AmpleRoom)}
  \cup GetBulkRequests({SNMP_VERSION_2C}, {0}, {1}, {<<ReadVb(OidScalarA)>>},
                       {AmpleRoom})
  \cup SetRequests({SNMP_VERSION_2C}, {<<VarBind(OidScalarA, TAG_VALUE, 1)>>},
                   {AmpleRoom})
  \cup {Request(ERROR_INVALID_TAG, SNMP_PDU_GET_REQUEST, SNMP_VERSION_1, 0, 0,
                 <<ReadVb(OidScalarA)>>, AmpleRoom)}
  \cup {Request(NO_ERROR, t, SNMP_VERSION_2C, 0, 0, <<>>, AmpleRoom) :
          t \in {SNMP_PDU_REPORT, SNMP_PDU_TRAP}}

\* What a processed message leaves behind.
Outcome(w) ==
  [request |-> request[w], response |-> response[w], status |-> status[w],
   mib |-> mib, snmpGroup |-> snmpGroup]

\* The worker receives its next message: the request is replaced, the rest of
\* the context is as snmpProcessPdu left it.
NextPdu(w) ==
  /\ pc[w] = "done"
  /\ Len(hist[w].past) + 1 < MaxPdus
  /\ \E r \in SeqRequests : request' = [request EXCEPT ![w] = r]
  /\ hist' = [hist EXCEPT ![w].past = Append(@, Outcome(w))]
  /\ pc' = [pc EXCEPT ![w] = "start"]
  /\ local' = [local EXCEPT ![w] = NoLocal]
  /\ UNCHANGED <<mibLock, mib, snmpGroup, user, usmStats, response, status,
                 committed>>

InitSeq == InitWith([{1} -> Contexts(SeqRequests, {SNMP_ACCESS_READ_WRITE})])
NextSeq == Step(1) \/ NextPdu(1)
SpecSeq == InitSeq /\ [][NextSeq]_vars

\* One worker that reports MaxReports security failures of one received
\* message: the message of an SNMPv3 user with any of the security levels,
\* and a buffer without room, with room for the header only, or with room.
\* The error indication is one of the eight causes or another status.
MaxReports == 2
ReportRooms == {0, 1, AmpleRoom}
ErrorIndications == FailureCauses \cup {ERROR_FAILURE}
ReportedMessages ==
  [version : {SNMP_VERSION_3}, msgId : {1}, requestId : {2},
   msgFlags : SUBSET {SNMP_MSG_FLAG_AUTH, SNMP_MSG_FLAG_PRIV},
   msgUserName : {"user1", "user2"}, room : ReportRooms]

\* The call of snmpFormatReportPdu: the counters as they are before it, and
\* the number of the calls so far.
Reporting(stats, n) == [before |-> stats, reports |-> n]

\* The security processing fails again on the message.
NextReport(w) ==
  /\ pc[w] = "reported"
  /\ hist[w].reports < MaxReports
  /\ \E e \in ErrorIndications :
       local' = [local EXCEPT ![w] = ReportLocal(e)]
  /\ hist' = [hist EXCEPT ![w] = Reporting(usmStats, @.reports + 1)]
  /\ pc' = [pc EXCEPT ![w] = "report"]
  /\ UNCHANGED <<mibLock, mib, snmpGroup, user, usmStats, request, response,
                 status, committed>>

InitReport ==
  /\ request \in [{1} -> ReportedMessages]
  /\ local \in [{1} -> {ReportLocal(e) : e \in ErrorIndications}]
  /\ user = [w \in {1} |-> [mode |-> SNMP_ACCESS_READ_WRITE]]
  /\ mibLock = {}
  /\ mib = InitialMib
  /\ committed = InitialMib
  /\ snmpGroup = NoCounters
  /\ usmStats = NoUsmStats
  /\ pc = [w \in {1} |-> "report"]
  /\ response = [w \in {1} |-> snmpInitV3Message]
  /\ status = [w \in {1} |-> NO_ERROR]
  /\ hist = [w \in {1} |-> Reporting(NoUsmStats, 1)]
ReportStep(w) ==
  \/ ReportHeader(w)
  \/ ReportSelect(w)
  \/ ReportEncode(w)
  \/ NextReport(w)
NextRep == ReportStep(1)
SpecReport == InitReport /\ [][NextRep]_vars

\* Two contexts, each of a caller with any access mode: in the first
\* snmpProcessPdu processes one of the messages of SeqRequests, in the second
\* snmpFormatReportPdu reports a security failure of an authenticated
\* message (a usmStats cause, a context cause or another status), with or
\* without room in the buffer.
FrameIndications ==
  {ERROR_NOT_IN_TIME_WINDOW, ERROR_UNKNOWN_CONTEXT, ERROR_FAILURE}
FrameMessages ==
  [version : {SNMP_VERSION_3}, msgId : {1}, requestId : {2},
   msgFlags : {{SNMP_MSG_FLAG_AUTH}}, msgUserName : {"user1"},
   room : {0, AmpleRoom}]
InitFrame ==
  /\ \E c \in Contexts(SeqRequests, AccessModes), m \in FrameMessages :
       request = <<c.request, m>>
       /\ \E um \in AccessModes : user = <<[mode |-> c.mode], [mode |-> um]>>
  /\ \E e \in FrameIndications : local = <<NoLocal, ReportLocal(e)>>
  /\ mibLock = {}
  /\ mib = InitialMib
  /\ committed = InitialMib
  /\ snmpGroup = NoCounters
  /\ usmStats = NoUsmStats
  /\ pc = <<"start", "report">>
  /\ response = <<snmpInitMessage, snmpInitV3Message>>
  /\ status = <<NO_ERROR, NO_ERROR>>
  /\ hist = <<[NoHist EXCEPT !.snap = InitialMib], Reporting(NoUsmStats, 1)>>
FormatReport(w) ==
  \/ ReportHeader(w)
  \/ ReportSelect(w)
  \/ ReportEncode(w)
NextFrame == Step(1) \/ FormatReport(2)
SpecFrame == InitFrame /\ [][NextFrame]_vars

\* ------------------------------------------------------------- properties

Ops(w) == hist[w].ops
OpsNamed(w, name) == {i \in DOMAIN Ops(w) : Ops(w)[i].op = name}
Succeeded(w, name) == {i \in OpsNamed(w, name) : Ops(w)[i].res = NO_ERROR}
Failed(w, name) == {i \in OpsNamed(w, name) : Ops(w)[i].res # NO_ERROR}
\* The first failed operation of that name in the worker's log.
FirstFailed(w, name) ==
  CHOOSE i \in Failed(w, name) : \A j \in Failed(w, name) : i <= j
NumBindings(w) == Len(request[w].varBindList)

IsSet(w) ==
  request[w].header = NO_ERROR /\ request[w].pduType = SNMP_PDU_SET_REQUEST
IsRead(w) ==
  /\ request[w].header = NO_ERROR
  /\ request[w].pduType \in ReadTypes \cup {SNMP_PDU_GET_BULK_REQUEST}
\* The handler has returned to snmpProcessPdu.
HandlerReturned(w) == pc[w] \in {"epilogue", "done"}

\* C1: after a SetRequest-PDU has been processed to its end (full success, a
\* validation failure or a commit failure at any binding), the request bindings
\* whose commit took effect in the store are all N bindings or none.
C1_SetAllOrNone ==
  \A w \in Workers :
    (IsSet(w) /\ HandlerReturned(w)) =>
      LET took == {Ops(w)[i].index : i \in Succeeded(w, "commit")} IN
      took = {} \/ took = 1..NumBindings(w)

\* C2: in a SetRequest whose validation of binding k is the first to fail, no
\* commit is invoked for any binding and the store is unchanged, no validation
\* is invoked for a binding after k, the status translation is given index k,
\* and the response the handler returns echoes the request's binding list with
\* error-index k.
C2_ValidationFailure ==
  \A w \in Workers :
    (IsSet(w) /\ Failed(w, "check") # {}) =>
      LET f == Ops(w)[FirstFailed(w, "check")]
          k == f.index
      IN /\ OpsNamed(w, "commit") = {}
         /\ mib = hist[w].snap
         /\ \A i \in OpsNamed(w, "check") : Ops(w)[i].index <= k
         /\ \A i \in 1..(k - 1) :
              \E c \in Succeeded(w, "check") : Ops(w)[c].index = i
         /\ HandlerReturned(w) =>
              /\ hist[w].translate = <<[status |-> f.res, index |-> k]>>
              /\ status[w] = NO_ERROR =>
                   /\ response[w].varBindList = request[w].varBindList
                   /\ response[w].errorIndex = k
                   /\ response[w].errorStatus # SNMP_ERROR_NONE

\* The second of two bindings fails its validation after the first passed;
\* the response went out.
C2_Witness ==
  \E w \in Workers :
    /\ IsSet(w) /\ pc[w] = "done" /\ status[w] = NO_ERROR
    /\ NumBindings(w) = 2
    /\ Failed(w, "check") # {}
    /\ Ops(w)[FirstFailed(w, "check")].index = 2
    /\ request[w].varBindList[1].oid \in ScalarOids
    /\ response[w].errorIndex = 2
    /\ response[w].header

\* C3: every commit of a SetRequest comes after the validation succeeded for
\* all N bindings of the same PDU, and validations and commits all run in one
\* hold of the MIB lock, which is not released in between.
C3_CommitAfterValidation ==
  \A w \in Workers :
    /\ \A i \in OpsNamed(w, "commit") :
         /\ \A j \in 1..NumBindings(w) :
              \E c \in Succeeded(w, "check") : c < i /\ Ops(w)[c].index = j
         /\ \A c \in 1..i : Ops(w)[c].held /\ Ops(w)[c].hold = Ops(w)[i].hold
    /\ pc[w] \in {"setValidate", "setCommit"} =>
         /\ w \in mibLock
         /\ hist[w].locks = 1 /\ hist[w].unlocks = 0

\* Both bindings of a SetRequest are committed.
C3_Witness ==
  \E w \in Workers :
    /\ IsSet(w) /\ pc[w] = "setUnlock"
    /\ NumBindings(w) = 2
    /\ {Ops(w)[i].index : i \in Succeeded(w, "commit")} = {1, 2}
    /\ mib # hist[w].snap

\* C5: when a Get/GetNext, GetBulk or Set handler has returned, with success
\* or on any exit path, the worker does not hold the MIB lock; a handler
\* acquires the lock at most once and releases it as often as it acquired it.
C5_LockReleased ==
  \A w \in Workers :
    /\ hist[w].locks <= 1
    /\ hist[w].unlocks <= hist[w].locks
    /\ (w \in mibLock) <=> (hist[w].locks = 1 /\ hist[w].unlocks = 0)
    /\ HandlerReturned(w) =>
         /\ w \notin mibLock
         /\ hist[w].unlocks = hist[w].locks

\* A handler that left its loop on a failed retrieval has returned.
C5_Witness ==
  \E w \in Workers :
    /\ HandlerReturned(w)
    /\ hist[w].locks = 1 /\ hist[w].unlocks = 1
    /\ local[w].error = ERROR_READ_FAILED
    /\ local[w].index = 2

\* C4: with several workers on one MIB, every store operation of the
\* Get/GetNext, GetBulk and Set handlers (get, getNext, checkSet, commitSet) is
\* executed while the issuing worker holds the MIB lock, and at most one worker
\* holds the lock at any time.
C4_StoreOpsUnderLock ==
  /\ Cardinality(mibLock) <= 1
  /\ \A w \in Workers :
       /\ \A i \in DOMAIN Ops(w) : Ops(w)[i].held
       /\ pc[w] \in {"getLoop", "bulkLoop", "setValidate", "setCommit"} =>
            w \in mibLock

\* A worker is inside its loop with store operations made while the other one
\* waits for the lock.
C4_Witness ==
  \E w, o \in Workers :
    /\ w # o
    /\ pc[w] = "bulkLoop" /\ Len(Ops(w)) >= 2
    /\ mibLock = {w}
    /\ pc[o] = "setLock"

\* The value the SetRequest of worker s commits to oid last.
SetValue(s, oid) ==
  LET l == request[s].varBindList
      last == CHOOSE i \in DOMAIN l :
                l[i].oid = oid /\ \A j \in DOMAIN l : l[j].oid = oid => j <= i
  IN l[last].val
SetOids(s) == {request[s].varBindList[i].oid : i \in 1..NumBindings(s)}
\* The reads worker r made of the objects the SetRequest of worker s names.
ReadsOf(r, s) == {i \in Succeeded(r, "get") : Ops(r)[i].oid \in SetOids(s)}

C7_SnapshotOfStore ==
  \A w \in Workers :
    IsRead(w) =>
      \A i, j \in Succeeded(w, "get") :
        Ops(w)[i].oid = Ops(w)[j].oid => Ops(w)[i].val = Ops(w)[j].val

\* C7: within one Get/GetNext/GetBulk PDU the value of a managed object other
\* than the counter the handler updates itself is the same in every read the
\* PDU makes of it, whatever the other worker does; that counter
\* (snmpInTotalReqVars) is greater in the later of two reads.
C7_SnapshotOfObjects ==
  \A w \in Workers :
    IsRead(w) =>
      \A i, j \in Succeeded(w, "get") :
        (i < j /\ Ops(w)[i].oid = Ops(w)[j].oid) =>
          IF Ops(w)[i].oid = OidInTotalReqVars
            THEN Ops(w)[j].val > Ops(w)[i].val
            ELSE Ops(w)[i].val = Ops(w)[j].val

\* A GetRequest read one scalar twice while a SetRequest on it waits for the
\* lock.
C7_Witness ==
  \E r, s \in Workers :
    /\ r # s /\ IsRead(r) /\ IsSet(s)
    /\ pc[r] = "getUnlock" /\ pc[s] = "setLock" /\ mibLock = {r}
    /\ OidScalarA \in SetOids(s)
    /\ \E i, j \in Succeeded(r, "get") :
         i < j /\ Ops(r)[i].oid = OidScalarA /\ Ops(r)[j].oid = OidScalarA

IsGet(w) ==
  request[w].header = NO_ERROR /\ request[w].pduType = SNMP_PDU_GET_REQUEST
NotFound == {ERROR_OBJECT_NOT_FOUND, ERROR_INSTANCE_NOT_FOUND}

\* C8: in an SNMPv1 GetRequest where binding k is the first whose object is
\* absent, no store operation is made for a binding after k, the status
\* translation is called with index k, and the response has error-status
\* noSuchName, error-index k and the request's binding list.
C8_V1GetStopsAtAbsent ==
  \A w \in Workers :
    (IsGet(w) /\ request[w].version = SNMP_VERSION_1 /\ Failed(w, "get") # {})
      => LET f == Ops(w)[FirstFailed(w, "get")]
             k == f.index
         IN f.res \in NotFound =>
              /\ pc[w] # "getLoop"
              /\ \A i \in DOMAIN Ops(w) : Ops(w)[i].index <= k
              /\ \A i \in 1..(k - 1) :
                   \E g \in Succeeded(w, "get") : Ops(w)[g].index = i
              /\ HandlerReturned(w) =>
                   /\ hist[w].translate = <<[status |-> f.res, index |-> k]>>
                   /\ status[w] = NO_ERROR
                   /\ response[w].errorStatus = SNMP_ERROR_NO_SUCH_NAME
                   /\ response[w].errorIndex = k
                   /\ response[w].varBindList = request[w].varBindList

\* The first of two objects is absent: the response went out without a read
\* of the second.
C8_Witness ==
  \E w \in Workers :
    /\ IsGet(w) /\ request[w].version = SNMP_VERSION_1
    /\ pc[w] = "done" /\ response[w].header
    /\ NumBindings(w) = 2
    /\ request[w].varBindList[2].oid = OidScalarA
    /\ Len(Ops(w)) = 1
    /\ Ops(w)[1].res = ERROR_OBJECT_NOT_FOUND
    /\ response[w].errorIndex = 1

\* What the store answers to a get of oid.
Fetched(oid) == snmpGetObjectValue(oid, mib, snmpGroup)
\* The bindings are well-formed; binding k names an absent object, every
\* other binding a retrievable one.
OnlyAbsent(w, k) ==
  \A i \in 1..NumBindings(w) :
    LET b == request[w].varBindList[i] IN
    /\ snmpParseVarBinding(b) = NO_ERROR /\ oidCheck(b.oid) = NO_ERROR
    /\ IF i = k
         THEN Fetched(b.oid).error \in NotFound \cup {ERROR_ACCESS_DENIED}
         ELSE Fetched(b.oid).error = NO_ERROR

\* C9: in an SNMPv2c/v3 GetRequest that passed the access check and entered
\* the loop, where only the k-th object is absent (and the response has room
\* for the N bindings), the handler succeeds with
\* error-status noError, the response holds the N bindings in request order,
\* the k-th with the noSuchObject (object not found, access denied) or
\* noSuchInstance (instance not found) exception and an empty value, every
\* other one with the value read from the store.
C9_V2GetAbsentIsException ==
  \A w \in Workers :
    \A k \in 1..NumBindings(w) :
      (/\ IsGet(w) /\ request[w].version # SNMP_VERSION_1
       /\ HandlerReturned(w) /\ hist[w].locks = 1
       /\ OnlyAbsent(w, k)
       /\ local[w].error # ERROR_BUFFER_OVERFLOW)
      => /\ status[w] = NO_ERROR
         /\ response[w].errorStatus = SNMP_ERROR_NONE
         /\ response[w].errorIndex = 0
         /\ Len(response[w].varBindList) = NumBindings(w)
         /\ \A i \in 1..NumBindings(w) :
              LET b == request[w].varBindList[i]
                  v == response[w].varBindList[i]
              IN /\ v.oid = b.oid
                 /\ IF i = k
                      THEN /\ v.val = NoValue
                           /\ v.tag =
                                IF Fetched(b.oid).error =
                                     ERROR_INSTANCE_NOT_FOUND
                                  THEN SNMP_EXCEPTION_NO_SUCH_INSTANCE
                                  ELSE SNMP_EXCEPTION_NO_SUCH_OBJECT
                      ELSE /\ v.tag = TAG_VALUE
                           /\ \E g \in Succeeded(w, "get") :
                                /\ Ops(w)[g].index = i
                                /\ Ops(w)[g].oid = b.oid
                                /\ Ops(w)[g].val = v.val
                           /\ b.oid \in ScalarOids => v.val = mib[b.oid]

\* The second of two objects has no such instance, the first is a scalar.
C9_Witness ==
  \E w \in Workers :
    /\ IsGet(w) /\ request[w].version = SNMP_VERSION_2C
    /\ pc[w] = "done" /\ response[w].header
    /\ NumBindings(w) = 2
    /\ OnlyAbsent(w, 2)
    /\ response[w].varBindList[1] =
         VarBind(OidScalarA, TAG_VALUE, InitialMib[OidScalarA])
    /\ response[w].varBindList[2].tag = SNMP_EXCEPTION_NO_SUCH_INSTANCE

\* The handler of a Get or GetNext PDU between its snmpLockMib call and the
\* status translation: the response is the list built so far.
InGetLoop(w) ==
  /\ request[w].header = NO_ERROR /\ request[w].pduType \in ReadTypes
  /\ pc[w] \in {"getLoop", "getUnlock", "getFinish"}
\* The failed operation e made the loop append an exception and go on (or
\* the binding found no room) / made the handler leave the loop.
Continued(w, e, tag) ==
  \/ /\ Len(response[w].varBindList) >= e.index
     /\ response[w].varBindList[e.index].tag = tag
     /\ response[w].varBindList[e.index].val = NoValue
  \/ /\ local[w].error = ERROR_BUFFER_OVERFLOW
     /\ local[w].index = e.index
Aborted(w, e) ==
  /\ pc[w] # "getLoop"
  /\ local[w].error = e.res /\ local[w].index = e.index
  /\ Len(response[w].varBindList) = e.index - 1
\* The classification of a failure in SNMPv2c/v3, its abort in SNMPv1.
Classified(w, e) ==
  IF request[w].version = SNMP_VERSION_1 THEN Aborted(w, e)
  ELSE IF e.res \in {ERROR_ACCESS_DENIED, ERROR_OBJECT_NOT_FOUND}
    THEN Continued(w, e, SNMP_EXCEPTION_NO_SUCH_OBJECT)
  ELSE IF e.res = ERROR_INSTANCE_NOT_FOUND
    THEN Continued(w, e, SNMP_EXCEPTION_NO_SUCH_INSTANCE)
  ELSE Aborted(w, e)

IsGetNext(w) ==
  /\ request[w].header = NO_ERROR
  /\ request[w].pduType = SNMP_PDU_GET_NEXT_REQUEST

\* C11: in a GetNextRequest, when the store has no next object for a binding:
\* SNMPv1 aborts the PDU at that binding (error-index its position, the
\* response has the request's bindings); SNMPv2c/v3 answers the binding with
\* endOfMibView and no value, makes no value fetch for it, goes on with the
\* following bindings and, nothing else failing, ends with noError.
C11_GetNextEndOfMibView ==
  \A w \in Workers :
    IsGetNext(w) =>
      \A i \in Failed(w, "getNext") :
        LET e == Ops(w)[i] IN
        e.res = ERROR_OBJECT_NOT_FOUND =>
          IF request[w].version = SNMP_VERSION_1
            THEN /\ InGetLoop(w) => Aborted(w, e)
                 /\ HandlerReturned(w) =>
                      /\ hist[w].translate =
                           <<[status |-> e.res, index |-> e.index]>>
                      /\ status[w] = NO_ERROR
                      /\ response[w].errorStatus = SNMP_ERROR_NO_SUCH_NAME
                      /\ response[w].errorIndex = e.index
                      /\ response[w].varBindList = request[w].varBindList
            ELSE /\ \A g \in OpsNamed(w, "get") : Ops(w)[g].index # e.index
                 /\ InGetLoop(w) =>
                      /\ Continued(w, e, SNMP_EXCEPTION_END_OF_MIB_VIEW)
                      /\ local[w].error # ERROR_BUFFER_OVERFLOW =>
                           /\ local[w].index > e.index
                           /\ response[w].varBindList[e.index].oid = e.oid
                 /\ (HandlerReturned(w) /\ local[w].error = NO_ERROR) =>
                      /\ status[w] = NO_ERROR
                      /\ response[w].errorStatus = SNMP_ERROR_NONE
                      /\ Len(response[w].varBindList) = NumBindings(w)
                      /\ response[w].varBindList[e.index] =
                           VarBind(request[w].varBindList[e.index].oid,
                                   SNMP_EXCEPTION_END_OF_MIB_VIEW, NoValue)

\* An SNMPv2c GetNextRequest: the first binding is past the last object, the
\* second one is answered with a value; the response went out.
C11_Witness ==
  \E w \in Workers :
    /\ IsGetNext(w) /\ request[w].version = SNMP_VERSION_2C
    /\ pc[w] = "done" /\ response[w].header
    /\ NumBindings(w) = 2
    /\ response[w].errorStatus = SNMP_ERROR_NONE
    /\ response[w].varBindList[1].tag = SNMP_EXCEPTION_END_OF_MIB_VIEW
    /\ response[w].varBindList[2].tag = TAG_VALUE

\* C12: when the handler of a Get or GetNext PDU leaves its loop on a failure
\* and the status translation succeeds, the response's binding list is empty
\* if the version is SNMPv2c/v3 and the status tooBig, and the request's
\* binding list in every other case (tooBig in SNMPv1 included); without a
\* failure the response keeps the bindings accumulated by the loop.
C12_Reformat ==
  [][\A w \in Workers :
       (pc[w] = "getFinish" /\ pc'[w] # "getFinish") =>
         LET t == snmpTranslateStatusCode(response[w], local[w].error,
                                          local[w].index)
         IN IF local[w].error = NO_ERROR
              THEN status'[w] = NO_ERROR /\ response'[w] = response[w]
              ELSE t.error = NO_ERROR =>
                     /\ status'[w] = NO_ERROR
                     /\ response'[w].errorStatus = t.response.errorStatus
                     /\ response'[w].errorIndex = local[w].index
                     /\ response'[w].varBindList =
                          IF /\ request[w].version # SNMP_VERSION_1
                             /\ t.response.errorStatus = SNMP_ERROR_TOO_BIG
                            THEN <<>>
                            ELSE request[w].varBindList]_vars

\* An SNMPv2c GetRequest for two values of which the second found no room:
\* the response went out as tooBig without a binding.
C12_Witness ==
  \E w \in Workers :
    /\ IsGet(w) /\ request[w].version = SNMP_VERSION_2C
    /\ pc[w] = "done" /\ response[w].header
    /\ NumBindings(w) = 2 /\ Cardinality(Succeeded(w, "get")) = 2
    /\ local[w].error = ERROR_BUFFER_OVERFLOW
    /\ response[w].errorStatus = SNMP_ERROR_TOO_BIG
    /\ response[w].varBindList = <<>>

IsBulk(w) ==
  /\ request[w].header = NO_ERROR
  /\ request[w].pduType = SNMP_PDU_GET_BULK_REQUEST
\* The handler of a request with variable bindings has returned.
RequestHandled(w) ==
  (IsRead(w) \/ IsSet(w)) /\ HandlerReturned(w)
\* Nothing of the request was processed: no lock call, no store operation,
\* no cursor on the bindings, no response under construction.
Untouched(w) ==
  /\ hist[w].locks = 0 /\ w \notin mibLock
  /\ Ops(w) = <<>>
  /\ local[w] = NoLocal
  /\ response[w] = snmpInitMessage
  /\ mib = InitialMib

\* C13 as stated: the Get/GetNext and GetBulk handlers fail with access denied
\* exactly when the access mode is neither read-only nor read-write, the Set
\* handler exactly when it is neither write-only nor read-write; on denial the
\* bad-access counter is incremented by one, the lock is not acquired, no
\* binding is decoded and no store operation made.
C13_AccessPolicy ==
  \A w \in Workers :
    RequestHandled(w) =>
      LET denied ==
            IF IsSet(w)
              THEN user[w].mode \notin
                     {SNMP_ACCESS_WRITE_ONLY, SNMP_ACCESS_READ_WRITE}
              ELSE user[w].mode \notin
                     {SNMP_ACCESS_READ_ONLY, SNMP_ACCESS_READ_WRITE}
      IN /\ (status[w] = ERROR_ACCESS_DENIED) <=> denied
         /\ denied => /\ snmpGroup.snmpInBadCommunityUses = 1
                      /\ Untouched(w)

\* C13: as above, for every request but a GetBulkRequest of SNMPv1, which is
\* rejected before the access mode is looked at; without a denial the
\* bad-access counter is not incremented.
C13_AccessPolicyButBulkV1 ==
  \A w \in Workers :
    (RequestHandled(w) /\
     ~(IsBulk(w) /\ request[w].version = SNMP_VERSION_1)) =>
      LET denied ==
            IF IsSet(w)
              THEN user[w].mode \notin
                     {SNMP_ACCESS_WRITE_ONLY, SNMP_ACCESS_READ_WRITE}
              ELSE user[w].mode \notin
                     {SNMP_ACCESS_READ_ONLY, SNMP_ACCESS_READ_WRITE}
      IN /\ (status[w] = ERROR_ACCESS_DENIED) <=> denied
         /\ denied => /\ snmpGroup.snmpInBadCommunityUses = 1
                      /\ Untouched(w)
         /\ ~denied => snmpGroup.snmpInBadCommunityUses = 0

\* A GetNextRequest of a caller with write-only access was denied.
C13_Witness ==
  \E w \in Workers :
    /\ IsGetNext(w) /\ pc[w] = "done"
    /\ user[w].mode = SNMP_ACCESS_WRITE_ONLY
    /\ NumBindings(w) = 1
    /\ status[w] = ERROR_ACCESS_DENIED
    /\ snmpGroup.snmpInBadCommunityUses = 1
    /\ ~response[w].header

\* C14: a GetBulkRequest of SNMPv1 fails with an invalid-type error before the
\* access mode is looked at: the bad-access counter is untouched, the lock is
\* not acquired, no store operation is made, and the dispatcher writes no
\* response header.
C14_BulkV1Rejected ==
  \A w \in Workers :
    (IsBulk(w) /\ request[w].version = SNMP_VERSION_1 /\ HandlerReturned(w)) =>
      /\ status[w] = ERROR_INVALID_TYPE
      /\ snmpGroup.snmpInBadCommunityUses = 0
      /\ Untouched(w)
      /\ hist[w].translate = <<>>
      /\ ~response[w].header
      /\ snmpGroup.snmpOutGetResponses = 0

\* A GetBulkRequest of SNMPv1 from a caller without any access was rejected.
C14_Witness ==
  \E w \in Workers :
    /\ IsBulk(w) /\ pc[w] = "done"
    /\ request[w].version = SNMP_VERSION_1
    /\ user[w].mode = SNMP_ACCESS_NONE
    /\ NumBindings(w) = 1
    /\ status[w] = ERROR_INVALID_TYPE
    /\ snmpGroup.snmpInBadCommunityUses = 0

\* A GetBulkRequest that passed the version and access tests.
BulkAdmitted(w) == IsBulk(w) /\ hist[w].locks = 1
\* The number of non-repeating bindings of the request.
NonRepeating(w) == Min(request[w].nonRepeaters, NumBindings(w))
\* The number of repeating bindings of the request.
Repeating(w) == NumBindings(w) - NonRepeating(w)
\* The identifier of the binding that answers a search from oid.
AnswerOid(oid) ==
  IF snmpGetNextObject(oid).error = NO_ERROR
    THEN snmpGetNextObject(oid).oid
    ELSE oid
\* The store operations made for the variable at position i.
OpsAt(w, i) == {k \in DOMAIN Ops(w) : Ops(w)[k].index = i}

\* C15: a GetBulkRequest with max-repetitions zero that meets no failure and
\* no overflow is answered with exactly min(non-repeaters, N) bindings, the
\* i-th one answering the i-th binding of the request; the store is never
\* queried for a variable beyond that prefix.
C15_BulkZeroRepetitions ==
  \A w \in Workers :
    (BulkAdmitted(w) /\ hist[w].maxRepetitions = 0) =>
      /\ \A k \in DOMAIN Ops(w) : Ops(w)[k].index <= NonRepeating(w)
      /\ (HandlerReturned(w) /\ local[w].error = NO_ERROR) =>
           /\ status[w] = NO_ERROR
           /\ response[w].errorStatus = SNMP_ERROR_NONE
           /\ Len(response[w].varBindList) = NonRepeating(w)
           /\ \A i \in 1..NonRepeating(w) :
                /\ response[w].varBindList[i].oid =
                     AnswerOid(request[w].varBindList[i].oid)
                /\ \E k \in OpsAt(w, i) :
                     /\ Ops(w)[k].op = "getNext"
                     /\ Ops(w)[k].oid = request[w].varBindList[i].oid

\* A GetBulkRequest with one non-repeating and one repeating binding and
\* max-repetitions zero was answered with one binding.
C15_Witness ==
  \E w \in Workers :
    /\ BulkAdmitted(w) /\ pc[w] = "done"
    /\ hist[w].maxRepetitions = 0
    /\ request[w].nonRepeaters = 1
    /\ NumBindings(w) = 2
    /\ local[w].error = NO_ERROR
    /\ response[w].header
    /\ Len(response[w].varBindList) = 1
    /\ response[w].varBindList[1].tag = TAG_VALUE

\* The searches made for the variable at position i.
SearchesAt(w, i) == {k \in OpsAt(w, i) : Ops(w)[k].op = "getNext"}
\* The handler returned a response without an error status.
BulkSucceeded(w) ==
  /\ BulkAdmitted(w) /\ HandlerReturned(w)
  /\ status[w] = NO_ERROR
  /\ response[w].errorStatus = SNMP_ERROR_NONE

\* C16: a successful response to a GetBulkRequest has at most
\* min(nr, N) + mr * max(N - nr, 0) bindings; each non-repeating binding is
\* searched and answered once, each repeating one at most mr times.
C16_BulkSize ==
  \A w \in Workers :
    BulkAdmitted(w) =>
      /\ \A i \in 1..NumBindings(w) :
           Cardinality(SearchesAt(w, i)) <=
             IF i <= NonRepeating(w) THEN 1 ELSE hist[w].maxRepetitions
      /\ BulkSucceeded(w) =>
           /\ Len(response[w].varBindList) <=
                NonRepeating(w) + hist[w].maxRepetitions * Repeating(w)
           /\ \A i \in 1..NonRepeating(w) :
                i <= Len(response[w].varBindList) =>
                  /\ Cardinality(SearchesAt(w, i)) = 1
                  /\ response[w].varBindList[i].oid =
                       AnswerOid(request[w].varBindList[i].oid)
           /\ \A i \in (NonRepeating(w) + 1)..Len(response[w].varBindList) :
                \E k \in DOMAIN Ops(w) : Ops(w)[k].index > NonRepeating(w)

\* A GetBulkRequest with nr = 1, mr = 2 and N = 2 was answered with 1 + 2
\* bindings.
C16_Witness ==
  \E w \in Workers :
    /\ BulkSucceeded(w) /\ pc[w] = "done"
    /\ request[w].nonRepeaters = 1
    /\ hist[w].maxRepetitions = 2
    /\ NumBindings(w) = 2
    /\ response[w].header
    /\ local[w].error = NO_ERROR
    /\ Len(response[w].varBindList) = 3
    /\ Cardinality(SearchesAt(w, 1)) = 1
    /\ Cardinality(SearchesAt(w, 2)) = 2

\* The loop of the GetBulk handler has ended, without a failure or overflow.
BulkWalked(w) ==
  /\ BulkAdmitted(w)
  /\ pc[w] \in {"bulkUnlock", "bulkFinish", "done"}
  /\ local[w].error = NO_ERROR
\* The number of complete rounds in the response.
Rounds(w) ==
  (Len(response[w].varBindList) - NonRepeating(w)) \div Repeating(w)
\* The position in the response of the j-th binding of round r.
RoundPos(w, r, j) == NonRepeating(w) + (r - 1) * Repeating(w) + j
\* Every binding of round r has the value endOfMibView.
RoundExhausted(w, r) ==
  \A j \in 1..Repeating(w) :
    response[w].varBindList[RoundPos(w, r, j)].tag =
      SNMP_EXCEPTION_END_OF_MIB_VIEW

\* C17: the walk of the repeating bindings ends with the first round whose
\* bindings all have the value endOfMibView, or with round max-repetitions:
\* no earlier round is exhausted, a walk of fewer than max-repetitions rounds
\* ends with an exhausted round, and the response has no error status.  The
\* non-repeating bindings are no part of the test.
C17_BulkStopsWhenExhausted ==
  \A w \in Workers :
    (BulkWalked(w) /\ Repeating(w) > 0 /\ hist[w].maxRepetitions > 0) =>
      /\ Len(response[w].varBindList) =
           NonRepeating(w) + Rounds(w) * Repeating(w)
      /\ Rounds(w) \in 1..hist[w].maxRepetitions
      /\ \A r \in 1..(Rounds(w) - 1) : ~RoundExhausted(w, r)
      /\ Rounds(w) < hist[w].maxRepetitions => RoundExhausted(w, Rounds(w))
      /\ HandlerReturned(w) =>
           /\ status[w] = NO_ERROR
           /\ response[w].errorStatus = SNMP_ERROR_NONE

\* The walk ended after one of two rounds, its only repeating variable at
\* the end of the MIB view, although the non-repeating one found an object.
C17_Witness ==
  \E w \in Workers :
    /\ BulkWalked(w) /\ pc[w] = "done"
    /\ response[w].header
    /\ request[w].nonRepeaters = 1
    /\ NumBindings(w) = 2
    /\ hist[w].maxRepetitions >= 2
    /\ Rounds(w) = 1
    /\ response[w].varBindList[1].tag = TAG_VALUE
    /\ RoundExhausted(w, 1)

IsSearch(e) == e.op = "getNext"
\* The searches of the store a handler made, in order.
Searches(w) == SelectSeq(Ops(w), IsSearch)
\* The response under construction still holds the bindings of the walk.
BulkWalking(w) ==
  /\ BulkAdmitted(w)
  /\ \/ pc[w] \in {"bulkLoop", "bulkUnlock", "bulkFinish"}
     \/ HandlerReturned(w) /\ local[w].error = NO_ERROR

\* C18: the searches of the first pass start from the identifiers of the
\* request; the search for the j-th repeating variable in a later round
\* starts from the identifier of the j-th binding of the round before, which
\* is Repeating(w) positions back in the response, and the binding it
\* produces carries the identifier the store found from there.
C18_BulkRoundsChain ==
  \A w \in Workers :
    BulkWalking(w) =>
      \A t \in DOMAIN Searches(w) :
        /\ Searches(w)[t].oid =
             IF t <= NumBindings(w)
               THEN request[w].varBindList[t].oid
               ELSE response[w].varBindList[t - Repeating(w)].oid
        /\ Searches(w)[t].index =
             IF t <= NumBindings(w)
               THEN t
               ELSE NonRepeating(w) +
                    ((t - NumBindings(w) - 1) % Repeating(w)) + 1
        /\ t <= Len(response[w].varBindList) =>
             /\ response[w].varBindList[t].oid = AnswerOid(Searches(w)[t].oid)
             /\ response[w].varBindList[t].oid >= Searches(w)[t].oid

\* Three rounds over one repeating variable: the second search starts from
\* the object the first found, the third from the object the second found.
C18_Witness ==
  \E w \in Workers :
    /\ BulkWalking(w) /\ pc[w] = "done"
    /\ response[w].header
    /\ request[w].nonRepeaters = 1
    /\ NumBindings(w) = 2
    /\ Len(Searches(w)) = 4
    /\ Searches(w)[2].oid = OidScalarA
    /\ Searches(w)[3].oid = OidScalarB
    /\ Searches(w)[4].oid = OidInTotalReqVars
    /\ response[w].varBindList[3].oid = OidInTotalReqVars
    /\ response[w].varBindList[4].tag = SNMP_EXCEPTION_END_OF_MIB_VIEW

\* The GetBulk handler returned after the response buffer overflowed.
BulkOverflowed(w) ==
  /\ BulkAdmitted(w) /\ HandlerReturned(w)
  /\ local[w].error = ERROR_BUFFER_OVERFLOW

\* C19: a GetBulkRequest whose response buffer overflows is a success: the
\* status translator is not called, the error status is noError, and the
\* response is the bindings written before the one that did not fit, in the
\* order of the searches, not the bindings of the request.
C19_BulkOverflowTruncates ==
  \A w \in Workers :
    BulkOverflowed(w) =>
      /\ status[w] = NO_ERROR
      /\ hist[w].translate = <<>>
      /\ hist[w].unlocks = 1 /\ w \notin mibLock
      /\ response[w].errorStatus = SNMP_ERROR_NONE
      /\ response[w].errorIndex = 0
      /\ snmpWriteVarBinding(response[w], local[w].var).error =
           ERROR_BUFFER_OVERFLOW
      /\ Len(response[w].varBindList) = Len(Searches(w)) - 1
      /\ \A t \in DOMAIN response[w].varBindList :
           response[w].varBindList[t].oid = AnswerOid(Searches(w)[t].oid)
      /\ response[w].varBindList # request[w].varBindList

\* The buffer overflowed in the second round of a walk: the response holds
\* the non-repeating binding and the binding of the first round.
C19_Witness ==
  \E w \in Workers :
    /\ BulkOverflowed(w) /\ pc[w] = "done"
    /\ response[w].header
    /\ request[w].nonRepeaters = 1
    /\ NumBindings(w) = 2
    /\ Len(Searches(w)) = 3
    /\ Len(response[w].varBindList) = 2
    /\ response[w].varBindList[2].tag = TAG_VALUE
    /\ response[w].errorStatus = SNMP_ERROR_NONE

\* The GetBulk handler returned after a failure other than an overflow.
BulkAborted(w) ==
  /\ BulkAdmitted(w) /\ HandlerReturned(w)
  /\ local[w].error \notin {NO_ERROR, ERROR_BUFFER_OVERFLOW}
\* The position in the request of the variable the cursor is at: in a later
\* round the cursor walks the bindings of the round before, which end where
\* those of the current round start (next).
CursorIndex(w) ==
  IF local[w].buf = "request"
    THEN local[w].p + 1
    ELSE NonRepeating(w) + (local[w].p - (local[w].next - Repeating(w))) + 1

\* C20: a GetBulkRequest that meets a decoding error, an invalid identifier
\* or a store failure that is no exception aborts: the lock is released, the
\* status translator is called once with the failure and the index of the
\* failing variable, and when it succeeds the response carries the bindings
\* of the request in place of those produced so far.
C20_BulkAbortEchoes ==
  \A w \in Workers :
    BulkAborted(w) =>
      LET t == snmpTranslateStatusCode(response[w], local[w].error,
                                       local[w].index)
          b == request[w].varBindList[local[w].index]
      IN /\ w \notin mibLock /\ hist[w].unlocks = 1
         /\ hist[w].translate =
              <<[status |-> local[w].error, index |-> local[w].index]>>
         /\ local[w].index = CursorIndex(w)
         /\ \/ /\ local[w].buf = "request"
               /\ local[w].error \in {snmpParseVarBinding(b), oidCheck(b.oid)}
            \/ /\ Ops(w) # <<>>
               /\ Ops(w)[Len(Ops(w))].res = local[w].error
               /\ Ops(w)[Len(Ops(w))].index = local[w].index
         /\ IF t.error = NO_ERROR
              THEN /\ status[w] = NO_ERROR
                   /\ response[w].errorStatus =
                        StatusOf(request[w].version, local[w].error)
                   /\ response[w].errorStatus # SNMP_ERROR_NONE
                   /\ response[w].errorIndex = local[w].index
                   /\ response[w].varBindList = request[w].varBindList
              ELSE status[w] = t.error

\* A walk aborted in its second round: the search from the binding of the
\* first round failed, and the response echoes the two bindings of the
\* request with the index of the repeating one.
C20_Witness ==
  \E w \in Workers :
    /\ BulkAborted(w) /\ pc[w] = "done"
    /\ response[w].header
    /\ request[w].nonRepeaters = 1
    /\ NumBindings(w) = 2
    /\ local[w].buf = "response"
    /\ Len(Searches(w)) = 3
    /\ response[w].errorIndex = 2
    /\ response[w].varBindList = request[w].varBindList

\* snmpProcessPdu has returned.
Processed(w) == pc[w] = "done"
\* The requests a GetResponse-PDU answers.
Answerable(w) ==
  /\ request[w].header = NO_ERROR
  /\ request[w].pduType \in
       {SNMP_PDU_GET_REQUEST, SNMP_PDU_GET_NEXT_REQUEST,
        SNMP_PDU_GET_BULK_REQUEST, SNMP_PDU_SET_REQUEST}

\* C21: snmpProcessPdu counts a generated response and writes the header of
\* the response exactly when the handler returned success for a GetRequest,
\* GetNextRequest, GetBulkRequest or SetRequest; a failed handler, a Report-PDU
\* and a GetResponse-PDU get neither, and nothing is counted or written before
\* the handler has returned.
C21_ResponseGenerated ==
  \A w \in Workers :
    LET counted == snmpGroup.snmpOutGetResponses IN
    IF Processed(w)
      THEN /\ response[w].header <=> (status[w] = NO_ERROR /\ Answerable(w))
           /\ counted = IF response[w].header THEN 1 ELSE 0
      ELSE ~response[w].header /\ counted = 0

\* A Report-PDU was consumed with success: no response was generated.
C21_Witness ==
  \E w \in Workers :
    /\ Processed(w)
    /\ request[w].pduType = SNMP_PDU_REPORT
    /\ status[w] = NO_ERROR
    /\ ~response[w].header
    /\ snmpGroup.snmpOutGetResponses = 0

\* What the message before the current one left behind; before the first
\* message, the context and the store as initialised.
Before(w) ==
  IF hist[w].past = <<>>
    THEN [request |-> request[w], response |-> snmpInitMessage,
          status |-> NO_ERROR, mib |-> InitialMib, snmpGroup |-> NoCounters]
    ELSE hist[w].past[Len(hist[w].past)]
\* No handler ran for the current message: no lock call, no store operation,
\* no translation, no local of a handler set, store and counters as before.
NotHandled(w) ==
  /\ hist[w].locks = 0 /\ w \notin mibLock
  /\ Ops(w) = <<>>
  /\ hist[w].translate = <<>>
  /\ local[w] = NoLocal
  /\ mib = Before(w).mib
  /\ snmpGroup = Before(w).snmpGroup

\* C22: a message whose header cannot be parsed makes snmpProcessPdu return
\* the parser's error with the response left as it was, no handler run, the
\* lock not acquired and the store untouched; a message of a type the
\* dispatcher does not route makes it return an invalid-type error over an
\* initialised response without a header, and no store operation either.
C22_NotDispatched ==
  \A w \in Workers :
    Processed(w) =>
      /\ request[w].header # NO_ERROR =>
           /\ status[w] = request[w].header
           /\ response[w] = Before(w).response
           /\ NotHandled(w)
      /\ (request[w].header = NO_ERROR /\
          request[w].pduType \notin
            {SNMP_PDU_GET_REQUEST, SNMP_PDU_GET_NEXT_REQUEST,
             SNMP_PDU_GET_BULK_REQUEST, SNMP_PDU_SET_REQUEST,
             SNMP_PDU_GET_RESPONSE, SNMP_PDU_REPORT}) =>
           /\ status[w] = ERROR_INVALID_TYPE
           /\ response[w] = snmpInitMessage
           /\ NotHandled(w)

\* A message with an undecodable header was received after an answered
\* GetRequest: the context still holds the response to that request.
C22_Witness ==
  \E w \in Workers :
    /\ Processed(w)
    /\ request[w].header = ERROR_INVALID_TAG
    /\ status[w] = ERROR_INVALID_TAG
    /\ hist[w].past # <<>>
    /\ Before(w).status = NO_ERROR
    /\ Before(w).request.pduType = SNMP_PDU_GET_REQUEST
    /\ response[w].header
    /\ Len(response[w].varBindList) = 1

\* Every binding of the request decodes and names a valid identifier.
WellFormed(w) ==
  \A i \in DOMAIN request[w].varBindList :
    /\ snmpParseVarBinding(request[w].varBindList[i]) = NO_ERROR
    /\ oidCheck(request[w].varBindList[i].oid) = NO_ERROR
\* The response buffer has room for a response and for the request's list.
Roomy(w) ==
  /\ request[w].room > 0
  /\ VbListLen(request[w].varBindList) <= request[w].room
\* The caller's access mode does not permit the request.
Denied(w) ==
  IF IsSet(w)
    THEN user[w].mode \notin {SNMP_ACCESS_WRITE_ONLY, SNMP_ACCESS_READ_WRITE}
    ELSE user[w].mode \notin {SNMP_ACCESS_READ_ONLY, SNMP_ACCESS_READ_WRITE}
BulkV1(w) == IsBulk(w) /\ request[w].version = SNMP_VERSION_1
\* snmpProcessPdu returned success over a response with its header.
Answered(w) ==
  /\ status[w] = NO_ERROR
  /\ response[w].header
  /\ response[w].version = request[w].version

\* C23 as stated: every well-formed Get, GetNext, GetBulk or Set request is
\* answered with a response, whatever its semantic failure, the caller's
\* access mode and a GetBulkRequest of SNMPv1 included.
C23_AlwaysAnswered ==
  \A w \in Workers :
    (Processed(w) /\ Answerable(w) /\ WellFormed(w) /\ Roomy(w)) =>
      Answered(w)

\* C23: a well-formed Get, GetNext, GetBulk or Set request is answered with a
\* response, whatever the failure of its variables, unless the access mode of
\* the caller does not permit it or it is a GetBulkRequest of SNMPv1: these
\* two return a bare error without a response.  Besides them only a malformed
\* request or a response buffer without room returns an error.
C23_AnsweredUnlessRefused ==
  \A w \in Workers :
    (Processed(w) /\ Answerable(w)) =>
      /\ (WellFormed(w) /\ Roomy(w)) =>
           IF BulkV1(w)
             THEN status[w] = ERROR_INVALID_TYPE /\ ~response[w].header
           ELSE IF Denied(w)
             THEN status[w] = ERROR_ACCESS_DENIED /\ ~response[w].header
           ELSE /\ Answered(w)
                /\ response[w].errorStatus = SNMP_ERROR_NONE <=>
                     response[w].errorIndex = 0
      /\ status[w] # NO_ERROR =>
           ~WellFormed(w) \/ ~Roomy(w) \/ BulkV1(w) \/ Denied(w)

\* A GetRequest of SNMPv1 for an absent object was answered with an error
\* response.
C23_Witness ==
  \E w \in Workers :
    /\ Processed(w) /\ IsGet(w) /\ WellFormed(w)
    /\ request[w].version = SNMP_VERSION_1
    /\ request[w].varBindList = <<ReadVb(OidScalarA), ReadVb(OidAbsent)>>
    /\ Answered(w)
    /\ response[w].errorStatus = SNMP_ERROR_NO_SUCH_NAME
    /\ response[w].errorIndex = 2

\* The handler of the request called the status translator.
Reported(w) == hist[w].translate # <<>>
\* The failure the loop stopped with belongs to the variable at position i:
\* it does not decode, its identifier is invalid, the last store operation,
\* made for it, failed, or its binding did not fit the response.
FailureAt(w, i) ==
  LET b == request[w].varBindList[i] IN
  \/ /\ local[w].buf = "request"
     /\ local[w].error \in {snmpParseVarBinding(b), oidCheck(b.oid)}
  \/ /\ Ops(w) # <<>>
     /\ Ops(w)[Len(Ops(w))].index = i
     /\ \/ Ops(w)[Len(Ops(w))].res = local[w].error
        \/ local[w].error = ERROR_BUFFER_OVERFLOW

\* C24: the index a handler passes to the status translator is a position in
\* the request's list, that of the variable in process when the loop failed,
\* in a later round of a GetBulkRequest and in the second phase of a
\* SetRequest too; a response has error index 0 only with error status
\* noError.
C24_ErrorIndex ==
  \A w \in Workers :
    /\ (Answerable(w) /\ Reported(w)) =>
         /\ Len(hist[w].translate) = 1
         /\ hist[w].translate[1].status = local[w].error
         /\ hist[w].translate[1].index = local[w].index
         /\ local[w].index \in 1..NumBindings(w)
         /\ local[w].index = CursorIndex(w)
         /\ FailureAt(w, local[w].index)
    /\ (Answerable(w) /\ HandlerReturned(w) /\ status[w] = NO_ERROR) =>
         /\ response[w].errorIndex \in 0..NumBindings(w)
         /\ response[w].errorIndex = 0 =>
              response[w].errorStatus = SNMP_ERROR_NONE
         /\ response[w].errorIndex # 0 =>
              /\ Reported(w)
              /\ response[w].errorIndex = hist[w].translate[1].index

\* The commit of the second of two bindings failed: index 2 was reported.
C24_Witness ==
  \E w \in Workers :
    /\ IsSet(w) /\ Processed(w) /\ NumBindings(w) = 2
    /\ Cardinality(Succeeded(w, "check")) = 2
    /\ Cardinality(Succeeded(w, "commit")) = 1
    /\ Reported(w)
    /\ hist[w].translate[1].index = 2
    /\ response[w].header
    /\ response[w].errorIndex = 2

\* snmpFormatReportPdu returned success for the error indication e.
ReportBuilt(w, e) ==
  /\ pc[w] = "reported"
  /\ local[w].errorIndication = e
  /\ status[w] = NO_ERROR
  /\ response[w].header

\* C25: the Report-PDU of a message outside of the time window has the
\* security flags of authNoPriv (AUTH set, PRIV clear) whatever flags the
\* request carried, echoes the user name of the request, and its only binding
\* names the counter usmStatsNotInTimeWindows.
C25_TimeWindowAuthNoPriv ==
  \A w \in Workers :
    ReportBuilt(w, ERROR_NOT_IN_TIME_WINDOW) =>
      /\ response[w].msgFlags = {SNMP_MSG_FLAG_AUTH}
      /\ response[w].msgUserName = request[w].msgUserName
      /\ Len(response[w].varBindList) = 1
      /\ response[w].varBindList[1].oid = usmStatsNotInTimeWindowsObject

\* C26: for each of the eight causes the Report-PDU has one binding, which
\* names the counter object of the cause, a different one for each cause; the
\* counter of the cause is one more than before the call and the binding
\* carries its value.
C26_CounterReadBack ==
  \A w \in Workers :
    \A e \in FailureCauses :
      ReportBuilt(w, e) =>
        LET object == ReportCounterAll(e, usmStats).oid IN
        /\ Len(response[w].varBindList) = 1
        /\ response[w].varBindList[1].oid = object
        /\ \A f \in FailureCauses \ {e} :
             ReportCounterAll(f, usmStats).oid # object
        /\ usmStats[object] = hist[w].before[object] + 1
        /\ response[w].varBindList[1].val = usmStats[object]

\* What the messages processed so far left behind, in order.
Done(w) ==
  hist[w].past \o (IF Processed(w) THEN <<Outcome(w)>> ELSE <<>>)
\* The i-th and the j-th processed message are the same GetRequest, and no
\* SetRequest was processed between them.
SameGetTwice(w, i, j) ==
  /\ i < j
  /\ Done(w)[i].request = Done(w)[j].request
  /\ Done(w)[i].request.header = NO_ERROR
  /\ Done(w)[i].request.pduType = SNMP_PDU_GET_REQUEST
  /\ \A k \in (i + 1)..(j - 1) :
       ~(/\ Done(w)[k].request.header = NO_ERROR
         /\ Done(w)[k].request.pduType = SNMP_PDU_SET_REQUEST)
\* Two outcomes agree but for the values of their bindings.
SameAnswer(a, b) ==
  /\ a.status = b.status
  /\ a.response.header = b.response.header
  /\ a.response.errorStatus = b.response.errorStatus
  /\ a.response.errorIndex = b.response.errorIndex
  /\ Len(a.response.varBindList) = Len(b.response.varBindList)
  /\ \A k \in DOMAIN a.response.varBindList :
       /\ a.response.varBindList[k].oid = b.response.varBindList[k].oid
       /\ a.response.varBindList[k].tag = b.response.varBindList[k].tag

\* C27 as stated: the same GetRequest processed twice without a SetRequest
\* in between gets the same response, value for value, also when it reads a
\* protocol counter.
C27_GetTwiceIdentical ==
  \A w \in Workers :
    \A i, j \in DOMAIN Done(w) :
      SameGetTwice(w, i, j) =>
        /\ SameAnswer(Done(w)[i], Done(w)[j])
        /\ Done(w)[i].response.varBindList = Done(w)[j].response.varBindList

\* C27: the same GetRequest processed twice without a SetRequest in between
\* gets the same status, error status, error index and bindings, with the
\* same values except for the counter of the retrieved variables: the second
\* response carries a greater value of it than the first.
C27_GetTwiceButCounters ==
  \A w \in Workers :
    \A i, j \in DOMAIN Done(w) :
      SameGetTwice(w, i, j) =>
        /\ SameAnswer(Done(w)[i], Done(w)[j])
        /\ \A k \in DOMAIN Done(w)[i].response.varBindList :
             LET a == Done(w)[i].response.varBindList[k]
                 b == Done(w)[j].response.varBindList[k]
             IN IF a.oid = OidInTotalReqVars /\ a.tag = TAG_VALUE
                  THEN b.val > a.val
                  ELSE b.val = a.val

\* The GetRequest for the first scalar was answered twice with its value,
\* with a GetRequest for the counter in between.
C27_Witness ==
  \E w \in Workers :
    /\ Len(Done(w)) = 3
    /\ SameGetTwice(w, 1, 3)
    /\ Done(w)[2].request.varBindList = <<ReadVb(OidInTotalReqVars)>>
    /\ Done(w)[1].status = NO_ERROR
    /\ Done(w)[1].response.header
    /\ Done(w)[1].response.varBindList =
         <<VarBind(OidScalarA, TAG_VALUE, InitialMib[OidScalarA])>>
    /\ Done(w)[3].response.varBindList = Done(w)[1].response.varBindList

\* The loops of the handlers: at the head of an iteration of the Get loop and
\* of each Set loop, index - 1 iterations are over and N - index + 1 bindings
\* are left, so that the loop is left after N iterations at most; a GetBulk
\* in its r-th round has maxRepetitions - r + 1 repetitions left, and has
\* written less than r rounds of bindings.
LoopsBounded(w) ==
  /\ pc[w] \in {"getLoop", "setValidate", "setCommit"} =>
       /\ local[w].index \in 1..NumBindings(w)
       /\ local[w].length = NumBindings(w) - local[w].index + 1
  /\ pc[w] = "bulkLoop" =>
       /\ local[w].length >= 1
       /\ Repeating(w) > 0 /\ hist[w].maxRepetitions >= 1 =>
            /\ request[w].maxRepetitions \in 1..hist[w].maxRepetitions
            /\ Len(response[w].varBindList) <
                 NonRepeating(w) + Repeating(w) *
                   (hist[w].maxRepetitions - request[w].maxRepetitions + 1)
  /\ IsBulk(w) /\ hist[w].maxRepetitions >= 1 =>
       Len(Searches(w)) <=
         NonRepeating(w) + hist[w].maxRepetitions * Repeating(w)
  /\ \A i \in 1..Len(Ops(w)) : Ops(w)[i].index \in 1..NumBindings(w)
\* snmpProcessPdu has returned to the worker, which does not hold the gate.
Returned(w) == Processed(w) /\ w \notin mibLock
\* A worker that has not returned can take a step, or another one can.
NoDeadlock == (\E w \in Workers : ~Processed(w)) => ENABLED NextConc

\* C28: every dispatched PDU runs to completion.  The loops of the handlers
\* end within their bounds (N iterations for Get, GetNext and each phase of
\* Set, maxRepetitions rounds for GetBulk), no state with a worker inside
\* snmpProcessPdu is a deadlock, and under fair scheduling every worker
\* eventually returns from snmpProcessPdu with the gate released.
C28_EveryPduCompletes ==
  /\ [](NoDeadlock /\ \A w \in ConcWorkers : LoopsBounded(w))
  /\ \A w \in ConcWorkers : <>[]Returned(w)

\* Both workers have returned, each after one acquisition and one release of
\* the gate: the first from a GetBulk of two rounds, the second from a
\* SetRequest that committed two values.
C28_Witness ==
  /\ \A w \in Workers : Returned(w) /\ hist[w].locks = 1 /\ hist[w].unlocks = 1
  /\ IsBulk(1) /\ hist[1].maxRepetitions = FairRepetitions
  /\ Len(Searches(1)) = FairRepetitions
  /\ NumBindings(2) = 2
  /\ Cardinality({k \in DOMAIN Ops(2) : Ops(2)[k].op = "commit"}) = 2

\* The Set handler has returned success.
SetAnswered(w) == IsSet(w) /\ HandlerReturned(w) /\ status[w] = NO_ERROR

\* C29: after the Set handler returned success the response carries the
\* request's binding list, binding for binding, under every version: with
\* error-status noError after every binding was committed, and with the
\* translated error-status and error-index after a failure.
C29_SetEchoesRequest ==
  \A w \in Workers :
    SetAnswered(w) =>
      /\ response[w].varBindList = request[w].varBindList
      /\ IF response[w].errorStatus = SNMP_ERROR_NONE
           THEN /\ hist[w].translate = <<>>
                /\ response[w].errorIndex = 0
                /\ {Ops(w)[i].index : i \in Succeeded(w, "commit")} =
                     1..NumBindings(w)
           ELSE /\ Len(hist[w].translate) = 1
                /\ response[w].errorIndex = hist[w].translate[1].index
                /\ response[w].errorStatus =
                     StatusOf(request[w].version, hist[w].translate[1].status)

\* A SetRequest of SNMPv1 whose second binding names an object that does not
\* exist is answered noSuchName, index 2, with both bindings of the request.
C29_Witness ==
  \E w \in Workers :
    /\ SetAnswered(w) /\ pc[w] = "done"
    /\ request[w].version = SNMP_VERSION_1
    /\ NumBindings(w) = 2
    /\ response[w].errorStatus = SNMP_ERROR_NO_SUCH_NAME
    /\ response[w].errorIndex = 2
    /\ response[w].varBindList = request[w].varBindList
    /\ response[w].header

\* C30: when the validation of a SetRequest succeeded for all its bindings
\* and the commit of binding k is the first to fail, no commit is invoked for
\* a binding after k, the failure goes to the status translation with index
\* k, and the response carries the request's binding list.
C30_CommitFailureStops ==
  \A w \in Workers :
    (IsSet(w) /\ Failed(w, "commit") # {}) =>
      LET f == FirstFailed(w, "commit")
          k == Ops(w)[f].index
      IN /\ {Ops(w)[i].index : i \in Succeeded(w, "check")} =
              1..NumBindings(w)
         /\ k \in 1..NumBindings(w)
         /\ f = Len(Ops(w))
         /\ \A i \in OpsNamed(w, "commit") : Ops(w)[i].index <= k
         /\ {Ops(w)[i].index : i \in Succeeded(w, "commit")} = 1..(k - 1)
         /\ pc[w] # "setCommit"
         /\ HandlerReturned(w) =>
              /\ hist[w].translate = <<[status |-> Ops(w)[f].res, index |-> k]>>
              /\ status[w] = NO_ERROR =>
                   /\ response[w].varBindList = request[w].varBindList
                   /\ response[w].errorIndex = k
                   /\ response[w].errorStatus # SNMP_ERROR_NONE

\* The commit of the first of two validated bindings failed: the second was
\* not committed and the response names the first.
C30_Witness ==
  \E w \in Workers :
    /\ IsSet(w) /\ pc[w] = "done" /\ status[w] = NO_ERROR
    /\ NumBindings(w) = 2
    /\ Failed(w, "commit") # {}
    /\ Ops(w)[FirstFailed(w, "commit")].index = 1
    /\ Cardinality(OpsNamed(w, "check")) = 2
    /\ Cardinality(OpsNamed(w, "commit")) = 1
    /\ response[w].errorIndex = 1
    /\ response[w].varBindList = request[w].varBindList
    /\ response[w].header

\* C31: no step of snmpProcessPdu, of a handler it calls or of
\* snmpFormatReportPdu changes the access mode of a caller, whatever the
\* outcome.
C31_AccessModeKept == [][\A w \in {1, 2} : user'[w].mode = user[w].mode]_vars

\* snmpProcessPdu has returned AccessDenied to a caller with read-only access
\* that sent a SetRequest, and snmpFormatReportPdu has returned success in the
\* context of a caller without access: both modes are what they were.
C31_Witness ==
  /\ pc = <<"done", "reported">>
  /\ IsSet(1) /\ status[1] = ERROR_ACCESS_DENIED
  /\ user[1].mode = SNMP_ACCESS_READ_ONLY
  /\ status[2] = NO_ERROR /\ response[2].header
  /\ user[2].mode = SNMP_ACCESS_NONE

\* The binding at position t of the response comes after the first round and
\* the binding of the same variable in the round before has the value
\* endOfMibView.
ExhaustedBefore(w, t) ==
  /\ t > NumBindings(w)
  /\ response[w].varBindList[t - Repeating(w)].tag =
       SNMP_EXCEPTION_END_OF_MIB_VIEW

\* C32: in a GetBulk a repeating variable that was at the end of the MIB view
\* in one round is walked again in the next round that is performed: the
\* store is searched from its identifier and another binding is emitted for
\* it.  Every search emits a binding, but for the last one when the walk is
\* cut, so that a walk that is not cut emits N - nonRepeaters bindings in
\* every round.
C32_BulkExhaustedWalkedAgain ==
  \A w \in Workers :
    (BulkWalking(w) /\ Repeating(w) > 0) =>
      /\ Len(Searches(w)) - Len(response[w].varBindList) \in {0, 1}
      /\ \A t \in DOMAIN response[w].varBindList :
           ExhaustedBefore(w, t) =>
             /\ Searches(w)[t].oid =
                  response[w].varBindList[t - Repeating(w)].oid
             /\ Searches(w)[t].res = ERROR_OBJECT_NOT_FOUND
             /\ response[w].varBindList[t].tag = SNMP_EXCEPTION_END_OF_MIB_VIEW
             /\ response[w].varBindList[t].oid =
                  response[w].varBindList[t - Repeating(w)].oid
      /\ BulkWalked(w) =>
           /\ Len(Searches(w)) = Len(response[w].varBindList)
           /\ (Len(response[w].varBindList) - NonRepeating(w)) % Repeating(w) = 0

\* Two repeating variables and two rounds: the first variable was at the end
\* of the MIB view in the first round and is searched and answered again in
\* the second, where the other variable finds an object.
C32_Witness ==
  \E w \in Workers :
    /\ BulkWalked(w) /\ pc[w] = "done"
    /\ response[w].header
    /\ request[w].nonRepeaters = 0
    /\ NumBindings(w) = 2
    /\ Len(response[w].varBindList) = 4
    /\ response[w].varBindList[1].tag = SNMP_EXCEPTION_END_OF_MIB_VIEW
    /\ response[w].varBindList[2].tag = TAG_VALUE
    /\ response[w].varBindList[3].tag = SNMP_EXCEPTION_END_OF_MIB_VIEW
    /\ response[w].varBindList[4].tag = TAG_VALUE
    /\ Len(Searches(w)) = 4
    /\ Searches(w)[3].oid = request[w].varBindList[1].oid

\* The causes that have a counter of the user-based security model.
UsmCauses ==
  FailureCauses \ {ERROR_UNAVAILABLE_CONTEXT, ERROR_UNKNOWN_CONTEXT}
\* The object the Report-PDU names for an error indication without a counter.
UncountedObject(e) ==
  CASE e = ERROR_UNAVAILABLE_CONTEXT -> snmpUnavailableContextsObject
    [] e = ERROR_UNKNOWN_CONTEXT -> snmpUnknownContextsObject
    [] OTHER -> NullOid

SetEntered(w) == IsSet(w) /\ pc[w] \notin {"start", "set"}

====
